---- MODULE Spec2Model ----
(***************************************************************************)
(* web-to-ios-mcp: framework detection and project-model synthesis.        *)
(*                                                                         *)
(* The inspected project directory is the state `fs`; the server keeps no  *)
(* state of its own between calls, so the only other state is the last     *)
(* completed operation (`op`), its arguments (`arg`), what it returned     *)
(* (`ret`) and the fs calls it issued (`log`).  `prev` remembers an        *)
(* earlier call for comparison with a repetition of it, and `calls` holds  *)
(* the requests in flight when the handler serves two at a time.  Every    *)
(* exported function of the source is an operator computed the way the     *)
(* source computes it; every tool / detector call is one action.           *)
(***************************************************************************)
EXTENDS Integers, Sequences, FiniteSets, TLC

VARIABLES fs, op, arg, ret, log, prev, calls

vars == <<fs, op, arg, ret, log, prev, calls>>

(***************************************************************************)
(* Bounds of the explored project directories.                             *)
(***************************************************************************)
MaxDeps == 2        \* dependency entries in one manifest
MaxLines == 2       \* lines of one config file
MaxDepth == 3       \* nesting depth below app/ and src/app/
MaxEntries == 1     \* directory entries below app/ or src/app/
MaxTime == 2        \* distinct clock readings

(***************************************************************************)
(* JavaScript values.                                                      *)
(*   - string-typed positions hold TLA+ strings; Undefined and NullStr are *)
(*     the JS undefined / null in such a position;                         *)
(*   - object-typed positions hold records; Null is the JS null there;     *)
(*   - a rejected promise / thrown exception is a Throw record carrying    *)
(*     the fragments of error.message, which every caller without a        *)
(*     try/catch passes on.                                                *)
(***************************************************************************)
Undefined == "<undefined>"
NullStr == "<null>"
Null == [t |-> "null"]
\* no call: nothing being served, nothing remembered
NoCall == [t |-> "none"]
Throw(msg) == [t |-> "throw", message |-> msg]
IsThrow(v) == "t" \in DOMAIN v /\ v.t = "throw"

\* `!s` is false for a string-typed value
TruthyStr(s) == s \notin {Undefined, NullStr, ""}
\* `a || b` on string-typed values
OrStr(a, b) == IF TruthyStr(a) THEN a ELSE b
\* `obj?.[k]`: own property k of a (possibly absent, then empty) map
Get(map, k) == IF k \in DOMAIN map THEN map[k] ELSE Undefined

(***************************************************************************)
(* File contents.  A text file is a sequence of lines; a line of a config  *)
(* file is a `key: value` setting whose value is either a quoted literal   *)
(* or an expression.  A manifest holds one JSON text, well formed or not.  *)
(***************************************************************************)
Text(lines) == [t |-> "text", lines |-> lines]
EmptyText == Text(<<>>)
JsonText(v) == [t |-> "json", wellFormed |-> TRUE, value |-> v]
BadJsonText == [t |-> "json", wellFormed |-> FALSE, value |-> Null]

Line(key, form, val) == [key |-> key, form |-> form, val |-> val]

(***************************************************************************)
(* Directory nodes.                                                        *)
(***************************************************************************)
Missing == [kind |-> "missing", size |-> 0, text |-> EmptyText]
Dir == [kind |-> "dir", size |-> 4096, text |-> EmptyText]
File(size, text) == [kind |-> "file", size |-> size, text |-> text]

ViteConfigNames == <<"vite.config.ts", "vite.config.js", "vite.config.mjs", "vite.config.cjs">>
NextConfigNames == <<"next.config.js", "next.config.mjs", "next.config.ts">>
Range(s) == {s[i] : i \in DOMAIN s}
ConfigNames == Range(ViteConfigNames) \cup Range(NextConfigNames)
DirPaths == {"app", "src/app", "pages", "src/pages", "pages/api", "src/pages/api"}
AppRoots == {"app", "src/app"}
Paths == {"package.json"} \cup ConfigNames \cup DirPaths

\* the one project directory of the model; a call may also omit projectPath
ProjDir == "/proj"
ProjectPaths == {ProjDir, Undefined}

(***************************************************************************)
(* path.join(projectPath, ...segments): a TypeError for a non-string       *)
(* argument, else the path, kept relative to the project directory.        *)
(***************************************************************************)
PathJoin(projectPath, rel) ==
    IF projectPath = Undefined
    THEN Throw(<<"The \"path\" argument must be of type string. Received undefined">>)
    ELSE [t |-> "path", rel |-> rel]

(***************************************************************************)
(* File access facade (utils/file.ts).                                     *)
(***************************************************************************)
MaxFileSize == 10 * 1024 * 1024

\* fs.access rejects for a missing path, fs.readFile for a directory; both
\* land in the catch, as does nothing else
safeReadFile(d, rel) ==
    LET n == d.node[rel] IN
    IF n.kind = "missing" THEN Null
    ELSE IF n.size > MaxFileSize THEN Null
    ELSE IF n.kind = "dir" THEN Null
    ELSE n.text

fileExists(d, rel) == d.node[rel].kind # "missing"

\* `!content` for a string | null
FalsyText(c) == c = Null \/ c = EmptyText

\* JSON.parse: the parsed value, or a SyntaxError
JSONParse(c) ==
    IF c.t = "json" /\ c.wellFormed THEN c.value ELSE Throw(<<"Unexpected token in JSON">>)

\* mutant: JSON.parse outside the try block
readJsonFile_UncaughtParse(d, rel) ==
    LET content == safeReadFile(d, rel) IN
    IF FalsyText(content) THEN Null ELSE JSONParse(content)

\* mutant: only a file that fails to parse is absent; one that cannot be
\* read is an error
readJsonFile_RequiresFile(d, rel) ==
    LET content == safeReadFile(d, rel) IN
    IF content = Null THEN Throw(<<"ENOENT: no such file or directory, open '", rel, "'">>)
    ELSE IF FalsyText(content) THEN Null
    ELSE LET v == JSONParse(content) IN
         IF IsThrow(v) THEN Null ELSE v

readJsonFile(d, rel) ==
    LET content == safeReadFile(d, rel) IN
    IF FalsyText(content) THEN Null
    ELSE LET v == JSONParse(content) IN
         IF IsThrow(v) THEN Null ELSE v

\* mutant: the manifest is read past the facade, with fs.readFile and
\* JSON.parse as they come
readPackageJson_PastFacade(d, projectPath) ==
    LET pkgPath == PathJoin(projectPath, "package.json") IN
    IF IsThrow(pkgPath) THEN pkgPath
    ELSE IF d.node["package.json"].kind = "missing"
    THEN Throw(<<"ENOENT: no such file or directory, open 'package.json'">>)
    ELSE IF d.node["package.json"].kind = "dir"
    THEN Throw(<<"EISDIR: illegal operation on a directory, read">>)
    ELSE JSONParse(d.node["package.json"].text)

\* mutant: the manifest is handed out once; a later call finds it consumed
readPackageJson_ReadOnce(d, projectPath) ==
    IF prev # NoCall THEN Null
    ELSE IF IsThrow(PathJoin(projectPath, "package.json"))
    THEN PathJoin(projectPath, "package.json")
    ELSE readJsonFile(d, "package.json")

readPackageJson(d, projectPath) ==
    LET pkgPath == PathJoin(projectPath, "package.json") IN
    IF IsThrow(pkgPath) THEN pkgPath ELSE readJsonFile(d, pkgPath.rel)

(***************************************************************************)
(* Parsed manifests.  A JSON value is null, a number, or an object with    *)
(* the three sections the detectors read; an absent section is the empty   *)
(* map, which `?.` does not tell apart.                                    *)
(***************************************************************************)
EmptyMap == [k \in {} |-> ""]
JsonNumber(n) == [t |-> "number", n |-> n]
Manifest(deps, dev, scripts) ==
    [t |-> "object", dependencies |-> deps, devDependencies |-> dev, scripts |-> scripts]

\* `!packageJson`
FalsyJson(v) == v = Null \/ (v.t = "number" /\ v.n = 0)
\* packageJson.<section>
Section(v, name) == IF v.t = "object" THEN v[name] ELSE EmptyMap
\* { ...a, ...b }
Spread(a, b) ==
    [k \in DOMAIN a \cup DOMAIN b |-> IF k \in DOMAIN b THEN b[k] ELSE a[k]]
\* mutant: a missing dependency falls back to a default version
DepOrDev_Defaulted(v, k) ==
    OrStr(OrStr(Get(Section(v, "dependencies"), k), Get(Section(v, "devDependencies"), k)),
          "latest")

\* packageJson.dependencies?.[k] || packageJson.devDependencies?.[k]
DepOrDev(v, k) ==
    OrStr(Get(Section(v, "dependencies"), k), Get(Section(v, "devDependencies"), k))

(***************************************************************************)
(* Vite detector (detectors/vite-detector.ts).                             *)
(***************************************************************************)
detectUILibrary(packageJson) ==
    LET deps == Spread(Section(packageJson, "dependencies"),
                       Section(packageJson, "devDependencies")) IN
    IF TruthyStr(Get(deps, "react")) THEN "react"
    ELSE IF TruthyStr(Get(deps, "vue")) THEN "vue"
    ELSE IF TruthyStr(Get(deps, "svelte")) THEN "svelte"
    ELSE IF TruthyStr(Get(deps, "@angular/core")) THEN "angular"
    ELSE "unknown"

\* the for loop of findViteConfig from index i on
RECURSIVE findViteConfigFrom(_, _)
findViteConfigFrom(d, i) ==
    IF i > Len(ViteConfigNames) THEN NullStr
    ELSE IF fileExists(d, ViteConfigNames[i]) THEN ViteConfigNames[i]
    ELSE findViteConfigFrom(d, i + 1)

\* mutant: of the names that exist the last listed is taken
findViteConfig_LastExisting(d) ==
    LET existing == {i \in 1..Len(ViteConfigNames) : fileExists(d, ViteConfigNames[i])} IN
    IF existing = {} THEN NullStr
    ELSE ViteConfigNames[CHOOSE i \in existing : \A j \in existing : j <= i]

findViteConfig(d) == findViteConfigFrom(d, 1)

\* /outDir\s*:\s*['"]([^'"]+)['"]/ on one line: a quoted, non-empty value
OutDirMatches(line) ==
    line.key = "outDir" /\ line.form = "quoted" /\ line.val # ""

\* String.prototype.match without the g flag: the leftmost match, or null
\* (0 for null), given the positions at which the pattern matches
FirstMatch(hits) ==
    IF hits = {} THEN 0 ELSE CHOOSE i \in hits : \A j \in hits : i <= j

\* mutant: the config file is never consulted
detectBuildOutputDir_DefaultOnly(d, viteConfigPath) == "dist"

\* mutant: the pattern accepts an empty value ([^'"]* for [^'"]+) and the
\* capture is used unchecked
detectBuildOutputDir_EmptyCapture(d, viteConfigPath) ==
    IF viteConfigPath = NullStr THEN "dist"
    ELSE LET configContent == safeReadFile(d, viteConfigPath) IN
         IF FalsyText(configContent) THEN "dist"
         ELSE LET hits == {i \in 1..Len(configContent.lines) :
                              /\ configContent.lines[i].key = "outDir"
                              /\ configContent.lines[i].form = "quoted"} IN
              IF hits = {} THEN "dist"
              ELSE configContent.lines[CHOOSE i \in hits : \A j \in hits : i <= j].val

\* mutant: when the selected file gives no outDir the other config files
\* are searched for one
detectBuildOutputDir_AnyConfig(d, viteConfigPath) ==
    IF viteConfigPath = NullStr THEN "dist"
    ELSE LET OutDirsOf(name) ==
                 LET configContent == safeReadFile(d, name) IN
                 IF FalsyText(configContent) THEN {}
                 ELSE {i \in 1..Len(configContent.lines) :
                          OutDirMatches(configContent.lines[i])}
             giving == {i \in 1..Len(ViteConfigNames) : OutDirsOf(ViteConfigNames[i]) # {}}
         IN  IF OutDirsOf(viteConfigPath) # {}
             THEN d.node[viteConfigPath].text.lines[FirstMatch(OutDirsOf(viteConfigPath))].val
             ELSE IF giving = {} THEN "dist"
             ELSE LET name == ViteConfigNames[FirstMatch(giving)] IN
                  d.node[name].text.lines[FirstMatch(OutDirsOf(name))].val

detectBuildOutputDir(d, viteConfigPath) ==
    LET outputDir == "dist" IN
    IF viteConfigPath = NullStr THEN outputDir
    ELSE LET configContent == safeReadFile(d, viteConfigPath) IN
         IF FalsyText(configContent) THEN outputDir
         ELSE LET m == FirstMatch({i \in 1..Len(configContent.lines) :
                                      OutDirMatches(configContent.lines[i])}) IN
              IF m # 0 /\ configContent.lines[m].val # ""
              THEN configContent.lines[m].val
              ELSE outputDir

detectViteProject(d, projectPath) ==
    LET packageJson == readPackageJson(d, projectPath) IN
    IF IsThrow(packageJson) THEN packageJson
    ELSE IF FalsyJson(packageJson) THEN Null
    ELSE LET viteVersion == DepOrDev(packageJson, "vite") IN
         IF ~TruthyStr(viteVersion) THEN Null
         ELSE LET viteConfigPath == findViteConfig(d) IN
              [framework |-> "vite",
               version |-> viteVersion,
               uiLibrary |-> detectUILibrary(packageJson),
               viteConfigPath |-> viteConfigPath,
               buildCommand |-> OrStr(Get(Section(packageJson, "scripts"), "build"),
                                      "vite build"),
               buildOutputDir |-> detectBuildOutputDir(d, viteConfigPath),
               hasReactRouter |->
                   \/ TruthyStr(DepOrDev(packageJson, "react-router-dom"))
                   \/ TruthyStr(DepOrDev(packageJson, "react-router")),
               hasVueRouter |-> TruthyStr(DepOrDev(packageJson, "vue-router"))]

(***************************************************************************)
(* Next.js detector (detectors/nextjs-detector.ts).                        *)
(***************************************************************************)
\* fs.stat rejects for a missing path; stats.isDirectory() otherwise
isDirectory(d, rel) == d.node[rel].kind = "dir"

\* mutant: the pages convention is tested before the app convention
detectRouterType_PagesFirst(d) ==
    LET hasAppDir == isDirectory(d, "app") \/ isDirectory(d, "src/app")
        hasPagesDir == isDirectory(d, "pages") \/ isDirectory(d, "src/pages")
    IN  IF hasPagesDir THEN "pages"
        ELSE IF hasAppDir THEN "app"
        ELSE "unknown"

detectRouterType(d) ==
    LET hasAppDir == isDirectory(d, "app") \/ isDirectory(d, "src/app")
        hasPagesDir == isDirectory(d, "pages") \/ isDirectory(d, "src/pages")
    IN  IF hasAppDir THEN "app"
        ELSE IF hasPagesDir THEN "pages"
        ELSE "unknown"

\* fs.readdir(dirPath, { withFileTypes: true, recursive }): the entries of
\* the directory, at every depth when recursive; rejects if not a directory
readdir(d, root, recursive) ==
    IF d.node[root].kind # "dir" THEN Throw(<<"ENOTDIR: not a directory, scandir">>)
    ELSE [t |-> "dirents",
          entries |-> {e \in d.tree[root] : recursive \/ e.depth = 1}]

\* mutant: the directory is listed without the recursive option
hasRouteFiles_TopLevelOnly(d, root) ==
    LET listing == readdir(d, root, FALSE) IN
    IF IsThrow(listing) THEN FALSE
    ELSE \E entry \in listing.entries :
            entry.kind = "file" /\ (entry.name = "route.ts" \/ entry.name = "route.js")

hasRouteFiles(d, root) ==
    LET listing == readdir(d, root, TRUE) IN
    IF IsThrow(listing) THEN FALSE
    ELSE \E entry \in listing.entries :
            entry.kind = "file" /\ (entry.name = "route.ts" \/ entry.name = "route.js")

\* mutant: an api directory of the pages convention counts for the app
\* router as well
detectApiRoutes_EitherConvention(d, routerType) ==
    IF routerType = "unknown" THEN FALSE
    ELSE \/ isDirectory(d, "pages/api") \/ isDirectory(d, "src/pages/api")
         \/ (routerType = "app" /\ (hasRouteFiles(d, "app") \/ hasRouteFiles(d, "src/app")))

\* mutant: for the pages router only pages/api is looked for
detectApiRoutes_PagesApiOnly(d, routerType) ==
    IF routerType = "pages"
    THEN isDirectory(d, "pages/api")
    ELSE IF routerType = "app"
    THEN hasRouteFiles(d, "app") \/ hasRouteFiles(d, "src/app")
    ELSE FALSE

detectApiRoutes(d, routerType) ==
    IF routerType = "pages"
    THEN isDirectory(d, "pages/api") \/ isDirectory(d, "src/pages/api")
    ELSE IF routerType = "app"
    THEN LET hasApiInApp == hasRouteFiles(d, "app")
             hasApiInSrcApp == hasRouteFiles(d, "src/app")
         IN  hasApiInApp \/ hasApiInSrcApp
    ELSE FALSE

\* /output\s*:\s*['"]export['"]/ on one line
ExportMatches(line) ==
    line.key = "output" /\ line.form = "quoted" /\ line.val = "export"

\* the for loop of detectStaticExport from index i on
RECURSIVE detectStaticExportFrom(_, _)
detectStaticExportFrom(d, i) ==
    IF i > Len(NextConfigNames) THEN FALSE
    ELSE LET configContent == safeReadFile(d, NextConfigNames[i]) IN
         IF FalsyText(configContent) THEN detectStaticExportFrom(d, i + 1)
         ELSE IF FirstMatch({j \in 1..Len(configContent.lines) :
                                ExportMatches(configContent.lines[j])}) # 0
         THEN TRUE
         ELSE detectStaticExportFrom(d, i + 1)

\* mutant: only the first config file that exists is examined
detectStaticExport_FirstExistingOnly(d) ==
    LET existing == {i \in 1..Len(NextConfigNames) : fileExists(d, NextConfigNames[i])} IN
    /\ existing # {}
    /\ LET first == CHOOSE i \in existing : \A j \in existing : i <= j
           configContent == safeReadFile(d, NextConfigNames[first]) IN
       /\ ~FalsyText(configContent)
       /\ \E j \in 1..Len(configContent.lines) : ExportMatches(configContent.lines[j])

\* mutant: a project without any config file is taken to export
detectStaticExport_ExportByDefault(d) ==
    \/ detectStaticExportFrom(d, 1)
    \/ \A i \in 1..Len(NextConfigNames) : ~fileExists(d, NextConfigNames[i])

detectStaticExport(d) == detectStaticExportFrom(d, 1)

\* mutant: the two flags are reconciled, a static export having no API routes
detectNextJsProject_Reconciled(d, projectPath) ==
    LET packageJson == readPackageJson(d, projectPath) IN
    IF IsThrow(packageJson) THEN packageJson
    ELSE IF FalsyJson(packageJson) THEN Null
    ELSE LET nextVersion == DepOrDev(packageJson, "next") IN
         IF ~TruthyStr(nextVersion) THEN Null
         ELSE LET routerType == detectRouterType(d)
                  isStaticExport == detectStaticExport(d)
              IN  [framework |-> "nextjs",
                   version |-> nextVersion,
                   routerType |-> routerType,
                   hasApiRoutes |-> detectApiRoutes(d, routerType) /\ ~isStaticExport,
                   isStaticExport |-> isStaticExport,
                   buildCommand |-> OrStr(Get(Section(packageJson, "scripts"), "build"),
                                          "next build"),
                   buildOutputDir |-> IF isStaticExport THEN "out" ELSE ".next"]

\* mutant: the export directory is reported only for a project free of API
\* routes
detectNextJsProject_OutWhenReady(d, projectPath) ==
    LET packageJson == readPackageJson(d, projectPath) IN
    IF IsThrow(packageJson) THEN packageJson
    ELSE IF FalsyJson(packageJson) THEN Null
    ELSE LET nextVersion == DepOrDev(packageJson, "next") IN
         IF ~TruthyStr(nextVersion) THEN Null
         ELSE LET routerType == detectRouterType(d)
                  hasApiRoutes == detectApiRoutes(d, routerType)
                  isStaticExport == detectStaticExport(d)
              IN  [framework |-> "nextjs",
                   version |-> nextVersion,
                   routerType |-> routerType,
                   hasApiRoutes |-> hasApiRoutes,
                   isStaticExport |-> isStaticExport,
                   buildCommand |-> OrStr(Get(Section(packageJson, "scripts"), "build"),
                                          "next build"),
                   buildOutputDir |->
                       IF isStaticExport /\ ~hasApiRoutes THEN "out" ELSE ".next"]

detectNextJsProject(d, projectPath) ==
    LET packageJson == readPackageJson(d, projectPath) IN
    IF IsThrow(packageJson) THEN packageJson
    ELSE IF FalsyJson(packageJson) THEN Null
    ELSE LET nextVersion == DepOrDev(packageJson, "next") IN
         IF ~TruthyStr(nextVersion) THEN Null
         ELSE LET routerType == detectRouterType(d)
                  isStaticExport == detectStaticExport(d)
              IN  [framework |-> "nextjs",
                   version |-> nextVersion,
                   routerType |-> routerType,
                   hasApiRoutes |-> detectApiRoutes(d, routerType),
                   isStaticExport |-> isStaticExport,
                   buildCommand |-> OrStr(Get(Section(packageJson, "scripts"), "build"),
                                          "next build"),
                   buildOutputDir |-> IF isStaticExport THEN "out" ELSE ".next"]

(***************************************************************************)
(* Rendered text.  A document is a sequence of lines and a line a sequence *)
(* of string fragments: the literal pieces of the template and the values  *)
(* interpolated between them.  Static blank lines and the bodies of fixed  *)
(* code blocks are left out; an interpolation that yields '' on a line of  *)
(* its own is the empty line.  The warning sign and the check mark are     *)
(* written [warning] and [ok], and code spans without their back quotes.   *)
(***************************************************************************)
BlankLine == <<"">>

\* Array.prototype.join('\n\n') over sections
RECURSIVE JoinSections(_)
JoinSections(sections) ==
    IF Len(sections) = 0 THEN <<>>
    ELSE IF Len(sections) = 1 THEN sections[1]
    ELSE sections[1] \o <<BlankLine>> \o JoinSections(Tail(sections))

\* String.prototype.toUpperCase on a framework tag
toUpperCase(framework) ==
    CASE framework = "vite" -> "VITE"
      [] framework = "nextjs" -> "NEXTJS"
      [] framework = "cra" -> "CRA"
      [] OTHER -> "UNKNOWN"

\* new Date().toISOString() at clock reading now
toISOString(now) == ToString(now)

\* viteConfigPath?.split('.').pop()
Extension(viteConfigPath) ==
    CASE viteConfigPath = "vite.config.ts" -> "ts"
      [] viteConfigPath = "vite.config.js" -> "js"
      [] viteConfigPath = "vite.config.mjs" -> "mjs"
      [] viteConfigPath = "vite.config.cjs" -> "cjs"
      [] OTHER -> Undefined

YesNo(b) == IF b THEN "Yes" ELSE "No"

(***************************************************************************)
(* Specification generator (generators/spec-generator.ts).                 *)
(***************************************************************************)
\* mutant: the title carries the date as well
generateHeader_DatedTitle(appName, projectInfo, now) ==
    << <<"# iOS Migration Specification: ", appName, " (", toISOString(now), ")">>,
       <<"Generated: ", toISOString(now)>>,
       <<"Framework: ", toUpperCase(projectInfo.framework)>>,
       <<"Version: ", projectInfo.version>>,
       <<"---">> >>

generateHeader(appName, projectInfo, now) ==
    << <<"# iOS Migration Specification: ", appName>>,
       <<"Generated: ", toISOString(now)>>,
       <<"Framework: ", toUpperCase(projectInfo.framework)>>,
       <<"Version: ", projectInfo.version>>,
       <<"---">> >>

OverviewApiRoutes(hasApiRoutes) ==
    <<"- **API Routes**: ",
      IF hasApiRoutes THEN "Yes ([warning] Requires backend setup)" ELSE "No">>

OverviewStaticExport(isStaticExport) ==
    <<"- **Static Export**: ",
      IF isStaticExport THEN "Yes [ok]" ELSE "No ([warning] Required for Capacitor)">>

generateProjectOverview(projectInfo) ==
    << <<"## Project Overview">>,
       <<"- **Framework**: ", projectInfo.framework>>,
       <<"- **Version**: ", projectInfo.version>>,
       <<"- **Build Command**: ", projectInfo.buildCommand>>,
       <<"- **Build Output**: ", projectInfo.buildOutputDir>> >>
    \o (IF projectInfo.framework = "vite"
        THEN << <<"- **UI Library**: ", projectInfo.uiLibrary>>,
                <<"- **React Router**: ", YesNo(projectInfo.hasReactRouter)>>,
                <<"- **Vue Router**: ", YesNo(projectInfo.hasVueRouter)>> >>
        ELSE <<>>)
    \o (IF projectInfo.framework = "nextjs"
        THEN << <<"- **Router Type**: ",
                  IF projectInfo.routerType = "app" THEN "App Router"
                  ELSE IF projectInfo.routerType = "pages" THEN "Pages Router"
                  ELSE "Unknown">>,
                OverviewApiRoutes(projectInfo.hasApiRoutes),
                OverviewStaticExport(projectInfo.isStaticExport) >>
        ELSE <<>>)
    \o (IF projectInfo.framework = "cra"
        THEN << <<"- **React Router**: ", YesNo(projectInfo.hasReactRouter)>> >>
        ELSE <<>>)

generateCapacitorSetup(projectInfo, appName, bundleId) ==
    << <<"## Capacitor Setup">>,
       <<"### 1. Install Capacitor">>,
       <<"npm install @capacitor/core @capacitor/cli">>,
       <<"npm install @capacitor/ios">>,
       <<"### 2. Initialize Capacitor">>,
       <<"npx cap init \"", appName, "\" \"", bundleId, "\" --web-dir=\"",
         projectInfo.buildOutputDir, "\"">>,
       <<"### 3. Add iOS Platform">>,
       <<"npx cap add ios">> >>

\* the critical-warning block of "1. Enable Static Export"
StaticExportWarningBlock ==
    << <<"[warning] **CRITICAL**: You must enable static export for Capacitor.">>,
       <<"Edit next.config.js:">>,
       <<"  output: 'export',">> >>

\* the warning block of "2. Handle Dynamic Features"
ApiRoutesWarningBlock ==
    << <<"[warning] **API Routes Detected**: API routes don't work with static export.">>,
       <<"Options:">>,
       <<"- Move API logic to external backend (Supabase, Firebase, etc.)">>,
       <<"- Use serverless functions (Vercel, Netlify)">>,
       <<"- Create separate backend service">> >>

AppRouterConsiderations ==
    << <<"### 3. App Router Considerations">>,
       <<"- Remove server components that use fetch at build time">>,
       <<"- Convert generateStaticParams for all dynamic routes">>,
       <<"- Use getStaticProps pattern with static data">> >>

PagesRouterConsiderations ==
    << <<"### 3. Pages Router Considerations">>,
       <<"- Replace getServerSideProps with getStaticProps">>,
       <<"- Ensure all dynamic routes have getStaticPaths">>,
       <<"- Remove API routes or move to external service">> >>

\* mutant: the critical warning is printed whatever the flag
StaticExportClause_AlwaysWarn(isStaticExport) == StaticExportWarningBlock

\* ${isStaticExport ? ... : ...} and ${!isStaticExport ? ... : ''}
StaticExportClause(isStaticExport) ==
    IF isStaticExport
    THEN << <<"[ok] Static export is already enabled.">> >>
    ELSE StaticExportWarningBlock

\* mutant: the warning block is repeated after the list of options
ApiRoutesClause_Repeated(hasApiRoutes) ==
    IF hasApiRoutes
    THEN ApiRoutesWarningBlock \o ApiRoutesWarningBlock
    ELSE << <<"[ok] No API routes detected.">> >>

\* ${hasApiRoutes ? ... : ...}
ApiRoutesClause(hasApiRoutes) ==
    IF hasApiRoutes
    THEN ApiRoutesWarningBlock
    ELSE << <<"[ok] No API routes detected.">> >>

generateNextJsSteps(projectInfo) ==
    IF projectInfo.framework # "nextjs" THEN <<>>
    ELSE << <<"## Next.js Specific Configuration">>,
            <<"### 1. Enable Static Export">> >>
         \o StaticExportClause(projectInfo.isStaticExport)
         \o << <<"### 2. Handle Dynamic Features">> >>
         \o ApiRoutesClause(projectInfo.hasApiRoutes)
         \o (IF projectInfo.routerType = "app"
             THEN AppRouterConsiderations ELSE <<BlankLine>>)
         \o (IF projectInfo.routerType = "pages"
             THEN PagesRouterConsiderations ELSE <<BlankLine>>)

generateViteSteps(projectInfo) ==
    IF projectInfo.framework # "vite" THEN <<>>
    ELSE << <<"## Vite Specific Configuration">>,
            <<"### 1. Base Path Configuration">>,
            <<"Update vite.config.",
              OrStr(Extension(projectInfo.viteConfigPath), "ts"), ":">>,
            <<"  base: './', // Important for mobile">>,
            <<"    outDir: '", projectInfo.buildOutputDir, "',">>,
            <<"### 2. Environment Variables">>,
            <<"### 3. Router Configuration">> >>
         \o (IF projectInfo.hasReactRouter
             THEN << <<"**React Router detected**:">> >> ELSE <<BlankLine>>)
         \o (IF projectInfo.hasVueRouter
             THEN << <<"**Vue Router detected**:">> >> ELSE <<BlankLine>>)

generateCRASteps(projectInfo) ==
    IF projectInfo.framework # "cra" THEN <<>>
    ELSE << <<"## Create React App Configuration">>,
            <<"### 1. Environment Variables">>,
            <<"### 2. Homepage Configuration">> >>
         \o (IF projectInfo.hasReactRouter
             THEN << <<"### 3. Router Configuration">> >> ELSE <<BlankLine>>)

generateFrameworkSpecificSteps(projectInfo) ==
    IF projectInfo.framework = "nextjs" THEN generateNextJsSteps(projectInfo)
    ELSE IF projectInfo.framework = "vite" THEN generateViteSteps(projectInfo)
    ELSE IF projectInfo.framework = "cra" THEN generateCRASteps(projectInfo)
    ELSE <<>>

generateCommonIssues(projectInfo) ==
    << <<"## Common Issues & Solutions">>,
       <<"### 1. CORS and API Calls">>,
       <<"[warning] Mobile apps don't have CORS restrictions, but:">>,
       <<"### 2. Local Storage & Cookies">>,
       <<"### 3. File Access & Camera">>,
       <<"### 4. Deep Linking">>,
       <<"### 5. Safe Area & Notch">> >>

generateBuildSteps(projectInfo) ==
    << <<"## Build & Deploy Steps">>,
       <<"### 1. Build Web Assets">>,
       <<projectInfo.buildCommand>>,
       <<"### 2. Sync with Capacitor">>,
       <<"npx cap sync ios">>,
       <<"### 3. Open in Xcode">>,
       <<"npx cap open ios">>,
       <<"### 4. Configure in Xcode">>,
       <<"### 5. Build & Run">> >>

generateTestingChecklist ==
    << <<"## Testing Checklist">>,
       <<"- [ ] App launches without crashes">>,
       <<"- [ ] API calls succeed">>,
       <<"- [ ] Back button behavior correct">> >>

\* mutant: the color clause is written whether or not a color is given
generateNextSteps_AlwaysClause(primaryColor) ==
    << <<"## Next Steps">>,
       <<"1. **App Icon & Splash Screen**">>,
       <<"   - Prepare 1024x1024 icon", " (use ", primaryColor, " as primary color)">>,
       <<"2. **App Store Preparation**">>,
       <<"3. **Testing**">>,
       <<"4. **Performance Optimization**">>,
       <<"---">>,
       <<"**Generated by web-to-ios-mcp**">> >>

generateNextSteps(primaryColor) ==
    << <<"## Next Steps">>,
       <<"1. **App Icon & Splash Screen**">>,
       <<"   - Prepare 1024x1024 icon">>
         \o (IF TruthyStr(primaryColor)
             THEN <<" (use ", primaryColor, " as primary color)">> ELSE <<"">>),
       <<"2. **App Store Preparation**">>,
       <<"3. **Testing**">>,
       <<"4. **Performance Optimization**">>,
       <<"---">>,
       <<"**Generated by web-to-ios-mcp**">> >>

generateMigrationSpec(projectInfo, options, now) ==
    LET sections ==
          << generateHeader(options.appName, projectInfo, now),
             generateProjectOverview(projectInfo),
             generateCapacitorSetup(projectInfo, options.appName, options.bundleId),
             generateFrameworkSpecificSteps(projectInfo),
             generateCommonIssues(projectInfo),
             generateBuildSteps(projectInfo),
             generateTestingChecklist,
             generateNextSteps(options.primaryColor) >>
    IN  JoinSections(sections)

(***************************************************************************)
(* Tools (tools/detect-framework.js, tools/generate-spec.js) and the call  *)
(* handler (index.ts).                                                     *)
(***************************************************************************)
Envelope(lines) == [content |-> << [type |-> "text", text |-> lines] >>]

NoArguments == [t |-> "undefined"]
\* const { projectPath, ... } = args
Destructure(args) ==
    IF args = NoArguments
    THEN Throw(<<"Cannot destructure property 'projectPath' of 'args' as it is undefined.">>)
    ELSE args

\* mutant: nextjsProject || viteProject
OrModel_NextFirst(viteProject, nextjsProject) ==
    IF nextjsProject # Null THEN nextjsProject ELSE viteProject

\* viteProject || nextjsProject
OrModel(viteProject, nextjsProject) ==
    IF viteProject # Null THEN viteProject ELSE nextjsProject

\* mutant: the list of supported frameworks is left empty
SupportedFrameworks_None == <<>>

SupportedFrameworks ==
    << <<"- ", "Vite (React, Vue, Svelte, Angular)">>,
       <<"- ", "Next.js">>,
       <<"- ", "Create React App (coming soon)">> >>

NoFrameworkText(projectPath) ==
    << <<"[x] No supported framework detected in: ", projectPath>>,
       BlankLine,
       <<"Supported frameworks:">> >>
    \o SupportedFrameworks
    \o << BlankLine,
          <<"Please ensure:">>,
          <<"- ", "package.json exists">>,
          <<"- ", "Framework is installed in dependencies or devDependencies">> >>

\* mutant: a static export is ready whether or not it has API routes
isCapacitorReady_ExportOnly(projectInfo) ==
    IF projectInfo.framework = "nextjs"
    THEN projectInfo.isStaticExport
    ELSE TRUE

isCapacitorReady(projectInfo) ==
    IF projectInfo.framework = "nextjs"
    THEN projectInfo.isStaticExport /\ ~projectInfo.hasApiRoutes
    ELSE TRUE

DetectionText(projectInfo) ==
    << <<"[ok] Framework detected: **", toUpperCase(projectInfo.framework), "**">>,
       BlankLine,
       <<"**Version:** ", projectInfo.version>>,
       <<"**Build Command:** ", projectInfo.buildCommand>>,
       <<"**Build Output:** ", projectInfo.buildOutputDir>>,
       BlankLine >>
    \o (IF projectInfo.framework = "vite"
        THEN << <<"**UI Library:** ", projectInfo.uiLibrary>>,
                <<"**Vite Config:** ",
                  IF projectInfo.viteConfigPath # NullStr
                  THEN projectInfo.viteConfigPath ELSE "Not found">> >>
             \o (IF projectInfo.hasReactRouter
                 THEN << <<"**React Router:** Yes">> >> ELSE <<>>)
             \o (IF projectInfo.hasVueRouter
                 THEN << <<"**Vue Router:** Yes">> >> ELSE <<>>)
        ELSE <<>>)
    \o (IF projectInfo.framework = "nextjs"
        THEN << <<"**Router Type:** ",
                  IF projectInfo.routerType = "app" THEN "App Router (app/)"
                  ELSE IF projectInfo.routerType = "pages" THEN "Pages Router (pages/)"
                  ELSE "Unknown">>,
                <<"**API Routes:** ",
                  IF projectInfo.hasApiRoutes THEN "Yes [warning]" ELSE "No">>,
                <<"**Static Export:** ",
                  IF projectInfo.isStaticExport
                  THEN "Enabled [ok]" ELSE "Not configured [warning]">>,
                BlankLine >>
             \o (IF ~projectInfo.isStaticExport
                 THEN << <<"> [warning] **Important:** Next.js requires static export for Capacitor.">>,
                         <<"> Add output: 'export' to next.config.js">>,
                         BlankLine >>
                 ELSE <<>>)
             \o (IF projectInfo.hasApiRoutes
                 THEN << <<"> [warning] **Warning:** API routes detected. These won't work with static export.">>,
                         <<"> Consider moving to external backend (Supabase, Firebase, etc.)">>,
                         BlankLine >>
                 ELSE <<>>)
        ELSE <<>>)
    \o << BlankLine,
          <<"**Capacitor Compatibility:** ",
            IF isCapacitorReady(projectInfo)
            THEN "[ok] Ready" ELSE "[warning] Needs configuration">> >>

\* the detection both tools start with: each detector in turn, the first
\* rejection ending the try block
DetectProject(d, projectPath) ==
    LET viteProject == detectViteProject(d, projectPath) IN
    IF IsThrow(viteProject) THEN viteProject
    ELSE LET nextjsProject == detectNextJsProject(d, projectPath) IN
         IF IsThrow(nextjsProject) THEN nextjsProject
         ELSE OrModel(viteProject, nextjsProject)

detectFrameworkTool(d, args) ==
    LET a == Destructure(args) IN
    IF IsThrow(a) THEN a
    ELSE LET projectInfo == DetectProject(d, a.projectPath) IN
         IF IsThrow(projectInfo)
         THEN Envelope(<< <<"[x] Error detecting framework: ">> \o projectInfo.message >>)
         ELSE IF projectInfo = Null
         THEN Envelope(NoFrameworkText(a.projectPath))
         ELSE Envelope(DetectionText(projectInfo))

CouldNotDetectText(projectPath) ==
    << <<"[x] Could not detect a supported framework in: ", projectPath>>,
       BlankLine,
       <<"Supported frameworks:">>,
       <<"- ", "Vite (React, Vue, Svelte)">>,
       <<"- ", "Next.js">>,
       BlankLine,
       <<"Please ensure the project has a valid package.json with framework dependencies.">> >>

generateSpecTool(d, args, now) ==
    LET a == Destructure(args) IN
    IF IsThrow(a) THEN a
    ELSE LET projectInfo == DetectProject(d, a.projectPath) IN
         IF IsThrow(projectInfo)
         THEN Envelope(<< <<"[x] Error generating specification: ">> \o projectInfo.message >>)
         ELSE IF projectInfo = Null
         THEN Envelope(CouldNotDetectText(a.projectPath))
         ELSE Envelope(generateMigrationSpec(projectInfo, a, now))

(***************************************************************************)
(* Configuration synthesis (tools/generate-config.js).  The module the     *)
(* tool imports, generators/config-generator.js, is present only through   *)
(* its declarations; the configuration it builds is taken from the design  *)
(* listing of ConfigGenerator, and its static catalogs are opaque lines.   *)
(***************************************************************************)
DefaultPrimaryColor == "#8b5cf6"

\* mutant: the color also tints the status bar
generatePluginConfig_TintedStatusBar(options) ==
    [SplashScreen |-> [launchShowDuration |-> 2000,
                       backgroundColor |-> OrStr(options.primaryColor, DefaultPrimaryColor),
                       showSpinner |-> FALSE],
     StatusBar |-> [style |-> "dark",
                    backgroundColor |-> OrStr(options.primaryColor, "#ffffff")]]

generatePluginConfig(options) ==
    [SplashScreen |-> [launchShowDuration |-> 2000,
                       backgroundColor |-> OrStr(options.primaryColor, DefaultPrimaryColor),
                       showSpinner |-> FALSE],
     StatusBar |-> [style |-> "dark", backgroundColor |-> "#ffffff"]]

\* ConfigGenerator.generate, on the options the tool passes (appId for the
\* bundle identifier)
CapacitorConfigOf(options) ==
    [appId |-> options.appId,
     appName |-> options.appName,
     webDir |-> options.webDir,
     bundledWebRuntime |-> FALSE,
     server |-> [androidScheme |-> "https", iosScheme |-> "https"],
     ios |-> [contentInset |-> "automatic", scrollEnabled |-> TRUE],
     plugins |-> generatePluginConfig(options)]

\* an absent string interpolates as the word undefined
Interpolate(s) == IF s = Undefined THEN "undefined" ELSE s
BoolText(b) == IF b THEN "true" ELSE "false"

\* the capacitor.config.ts text of a configuration, one setting per line
formatAsTypeScript(config) ==
    << <<"import { CapacitorConfig } from '@capacitor/cli';">>,
       <<"const config: CapacitorConfig = {">>,
       <<"  appId: '", Interpolate(config.appId), "',">>,
       <<"  appName: '", Interpolate(config.appName), "',">>,
       <<"  webDir: '", Interpolate(config.webDir), "',">>,
       <<"  bundledWebRuntime: ", BoolText(config.bundledWebRuntime), ",">>,
       <<"  server: {">>,
       <<"    androidScheme: '", config.server.androidScheme, "',">>,
       <<"    iosScheme: '", config.server.iosScheme, "',">>,
       <<"  },">>,
       <<"  ios: {">>,
       <<"    contentInset: '", config.ios.contentInset, "',">>,
       <<"    scrollEnabled: ", BoolText(config.ios.scrollEnabled), ",">>,
       <<"  },">>,
       <<"  plugins: {">>,
       <<"    SplashScreen: {">>,
       <<"      launchShowDuration: ", ToString(config.plugins.SplashScreen.launchShowDuration), ",">>,
       <<"      backgroundColor: '", config.plugins.SplashScreen.backgroundColor, "',">>,
       <<"      showSpinner: ", BoolText(config.plugins.SplashScreen.showSpinner), ",">>,
       <<"    },">>,
       <<"    StatusBar: {">>,
       <<"      style: '", config.plugins.StatusBar.style, "',">>,
       <<"      backgroundColor: '", config.plugins.StatusBar.backgroundColor, "',">>,
       <<"    },">>,
       <<"  },">>,
       <<"};">>,
       <<"export default config;">> >>

generateCapacitorConfig(options) == formatAsTypeScript(CapacitorConfigOf(options))

\* static catalogs, independent of the options
generateCapacitorScripts(framework) == << <<"cap:sync", "npx cap sync ios">> >>
generateInfoPlistPermissions == << <<"[Info.plist permissions template]">> >>
generateGitignoreEntries == << <<"[.gitignore entries]">> >>

\* Object.entries(scripts).map(([key, value]) => ...).join(',\n')
ScriptLines(scripts) ==
    [i \in 1..Len(scripts) |->
        <<"    \"", scripts[i][1], "\": \"", scripts[i][2], "\"">>
        \o (IF i < Len(scripts) THEN <<",">> ELSE <<>>)]

\* the serialized configuration, the scripts block and fixed prose
generateSetupGuide(options) ==
    << <<"[setup guide: install and initialise Capacitor]">> >>
    \o generateCapacitorConfig(options)
    \o ScriptLines(generateCapacitorScripts(options.framework))
    \o << <<"[setup guide: build, sync and open in Xcode]">> >>

\* const { appName, appId, webDir, framework, primaryColor } = args
DestructureConfig(args) ==
    IF args = NoArguments
    THEN Throw(<<"Cannot destructure property 'appName' of 'args' as it is undefined.">>)
    ELSE args

generateConfigTool(args) ==
    LET a == DestructureConfig(args) IN
    IF IsThrow(a) THEN a
    ELSE Envelope(
        << <<"# Capacitor Configuration Generated">>,
           <<"## 1. capacitor.config.ts">> >>
        \o generateCapacitorConfig(a)
        \o << <<"## 2. Add these scripts to package.json">>,
              <<"{">>,
              <<"  \"scripts\": {">> >>
        \o ScriptLines(generateCapacitorScripts(a.framework))
        \o << <<"  }">>,
              <<"}">>,
              <<"## 3. Update .gitignore">> >>
        \o generateGitignoreEntries
        \o << <<"## 4. iOS Permissions Template">> >>
        \o generateInfoPlistPermissions
        \o << <<"---">>,
              <<"## Setup Guide">> >>
        \o generateSetupGuide(a))

ToolNames == {"detect_web_framework", "generate_ios_migration_spec"}

\* mutant: the switch without the try/catch around it
CallToolHandler_NoCatch(d, name, args, now) ==
    CASE name = "detect_web_framework" -> detectFrameworkTool(d, args)
      [] name = "generate_ios_migration_spec" -> generateSpecTool(d, args, now)
      [] name = "generate_capacitor_config" -> generateConfigTool(args)
      [] OTHER -> Throw(<<"Unknown tool: ", name>>)

\* server.setRequestHandler(CallToolRequestSchema, ...)
CallToolHandler(d, name, args, now) ==
    LET result ==
          CASE name = "detect_web_framework" -> detectFrameworkTool(d, args)
            [] name = "generate_ios_migration_spec" -> generateSpecTool(d, args, now)
            [] name = "generate_capacitor_config" -> generateConfigTool(args)
            [] OTHER -> Throw(<<"Unknown tool: ", name>>)
    IN  IF IsThrow(result)
        THEN Envelope(<< <<"Error: ">> \o result.message >>)
        ELSE result

(***************************************************************************)
(* The calls of the fs module each function issues, in the order it issues *)
(* them.  The source calls fs.access, fs.stat, fs.readFile and fs.readdir  *)
(* and nothing else of that module.                                        *)
(***************************************************************************)
FsCall(call, rel) == [call |-> call, path |-> rel]
FsReadCalls == {"access", "stat", "readFile", "readdir"}

\* access; stat unless access rejected; readFile unless the file is too large
safeReadFileCalls(d, rel) ==
    LET n == d.node[rel] IN
    IF n.kind = "missing" THEN <<FsCall("access", rel)>>
    ELSE IF n.size > MaxFileSize THEN <<FsCall("access", rel), FsCall("stat", rel)>>
    ELSE <<FsCall("access", rel), FsCall("stat", rel), FsCall("readFile", rel)>>

fileExistsCalls(d, rel) == <<FsCall("access", rel)>>

readJsonFileCalls(d, rel) == safeReadFileCalls(d, rel)

\* path.join throws before anything is read
readPackageJsonCalls(d, projectPath) ==
    IF IsThrow(PathJoin(projectPath, "package.json")) THEN <<>>
    ELSE readJsonFileCalls(d, "package.json")

isDirectoryCalls(d, rel) == <<FsCall("stat", rel)>>

\* `await isDirectory(a) || await isDirectory(b)`
EitherDirectoryCalls(d, a, b) ==
    isDirectoryCalls(d, a) \o (IF isDirectory(d, a) THEN <<>> ELSE isDirectoryCalls(d, b))

detectRouterTypeCalls(d) ==
    EitherDirectoryCalls(d, "app", "src/app")
    \o EitherDirectoryCalls(d, "pages", "src/pages")

hasRouteFilesCalls(d, root) == <<FsCall("readdir", root)>>

detectApiRoutesCalls(d, routerType) ==
    IF routerType = "pages" THEN EitherDirectoryCalls(d, "pages/api", "src/pages/api")
    ELSE IF routerType = "app"
    THEN hasRouteFilesCalls(d, "app") \o hasRouteFilesCalls(d, "src/app")
    ELSE <<>>

RECURSIVE detectStaticExportCallsFrom(_, _)
detectStaticExportCallsFrom(d, i) ==
    IF i > Len(NextConfigNames) THEN <<>>
    ELSE LET configContent == safeReadFile(d, NextConfigNames[i]) IN
         safeReadFileCalls(d, NextConfigNames[i])
         \o (IF ~FalsyText(configContent)
                /\ FirstMatch({j \in 1..Len(configContent.lines) :
                                  ExportMatches(configContent.lines[j])}) # 0
             THEN <<>>
             ELSE detectStaticExportCallsFrom(d, i + 1))

detectStaticExportCalls(d) == detectStaticExportCallsFrom(d, 1)

RECURSIVE findViteConfigCallsFrom(_, _)
findViteConfigCallsFrom(d, i) ==
    IF i > Len(ViteConfigNames) THEN <<>>
    ELSE fileExistsCalls(d, ViteConfigNames[i])
         \o (IF fileExists(d, ViteConfigNames[i]) THEN <<>>
             ELSE findViteConfigCallsFrom(d, i + 1))

findViteConfigCalls(d) == findViteConfigCallsFrom(d, 1)

detectBuildOutputDirCalls(d, viteConfigPath) ==
    IF viteConfigPath = NullStr THEN <<>> ELSE safeReadFileCalls(d, viteConfigPath)

\* mutant: the config file is looked up before the manifest is examined
detectViteProjectCalls_ConfigFirst(d, projectPath) ==
    findViteConfigCalls(d) \o readPackageJsonCalls(d, projectPath)

detectViteProjectCalls(d, projectPath) ==
    LET packageJson == readPackageJson(d, projectPath) IN
    readPackageJsonCalls(d, projectPath)
    \o (IF IsThrow(packageJson) THEN <<>>
        ELSE IF FalsyJson(packageJson) THEN <<>>
        ELSE IF ~TruthyStr(DepOrDev(packageJson, "vite")) THEN <<>>
        ELSE findViteConfigCalls(d)
             \o detectBuildOutputDirCalls(d, findViteConfig(d)))

detectNextJsProjectCalls(d, projectPath) ==
    LET packageJson == readPackageJson(d, projectPath) IN
    readPackageJsonCalls(d, projectPath)
    \o (IF IsThrow(packageJson) THEN <<>>
        ELSE IF FalsyJson(packageJson) THEN <<>>
        ELSE IF ~TruthyStr(DepOrDev(packageJson, "next")) THEN <<>>
        ELSE detectRouterTypeCalls(d)
             \o detectApiRoutesCalls(d, detectRouterType(d))
             \o detectStaticExportCalls(d))

\* both detectors in turn, the second unless the first rejected
DetectProjectCalls(d, projectPath) ==
    detectViteProjectCalls(d, projectPath)
    \o (IF IsThrow(detectViteProject(d, projectPath)) THEN <<>>
        ELSE detectNextJsProjectCalls(d, projectPath))

\* the synthesizer imports nothing of the fs module
generateMigrationSpecCalls == <<>>

detectFrameworkToolCalls(d, args) ==
    IF IsThrow(Destructure(args)) THEN <<>>
    ELSE DetectProjectCalls(d, Destructure(args).projectPath)

generateSpecToolCalls(d, args) ==
    IF IsThrow(Destructure(args)) THEN <<>>
    ELSE DetectProjectCalls(d, Destructure(args).projectPath)
         \o generateMigrationSpecCalls

(***************************************************************************)
(* Project directories explored.  The product of every manifest, config    *)
(* file and directory layout is out of reach, so the directories are drawn *)
(* from slices: each varies one part of the project exhaustively within    *)
(* the bounds and takes the rest from a few fixed layouts.                 *)
(***************************************************************************)
Proj(node, tree) == [node |-> node, tree |-> tree]
BareNodes == [p \in Paths |-> Missing]
BareTree == [r \in AppRoots |-> {}]
\* nodes with the paths of upd replaced
Override(nodes, upd) ==
    [p \in Paths |-> IF p \in DOMAIN upd THEN upd[p] ELSE nodes[p]]

TextFile(lines) == File(24 * Len(lines), Text(lines))
BigFile(text) == File(MaxFileSize + 1, text)
JsonFile(v) == File(512, JsonText(v))

SeqsUpTo(S, n) == UNION {[1..k -> S] : k \in 0..n}
RECURSIVE SubsetsUpTo(_, _)
SubsetsUpTo(S, n) ==
    IF n = 0 THEN {{}}
    ELSE LET smaller == SubsetsUpTo(S, n - 1) IN
         smaller \cup {p \cup {x} : p \in smaller, x \in S}

\* manifests: up to MaxDeps entries over both dependency sections
DepNames == {"vite", "next", "react", "vue", "react-router-dom", "react-scripts"}
Bindings ==
    [section : {"dependencies"}, name : DepNames, version : {"", "^5.0.0"}]
    \cup [section : {"devDependencies"}, name : DepNames, version : {"", "^4.0.0"}]
Consistent(B) ==
    \A b1, b2 \in B : (b1.section = b2.section /\ b1.name = b2.name) => b1 = b2
MapOf(B, section) ==
    LET mine == {b \in B : b.section = section} IN
    [n \in {b.name : b \in mine} |-> (CHOOSE b \in mine : b.name = n).version]
ScriptMaps == {EmptyMap, "build" :> "tsc && npm run bundle"}
Manifests ==
    {Manifest(MapOf(B, "dependencies"), MapOf(B, "devDependencies"), sc) :
        B \in {X \in SubsetsUpTo(Bindings, MaxDeps) : Consistent(X)},
        sc \in ScriptMaps}

ViteReactManifest ==
    Manifest("react" :> "^18.2.0", "vite" :> "^4.0.0", EmptyMap)
NextManifest == Manifest("next" :> "^14.1.0", EmptyMap, EmptyMap)
BothManifest ==
    Manifest("next" :> "^14.1.0", "vite" :> "^4.0.0", "build" :> "tsc && npm run bundle")

RouteAt(depth) == [depth |-> depth, name |-> "route.ts", kind |-> "file"]
ExportLine == Line("output", "quoted", "export")

\* the rest of the project while one part varies: nothing at all, or every
\* file and directory a detector looks at
FullNodes ==
    Override(BareNodes,
        "vite.config.ts" :> TextFile(<<Line("outDir", "quoted", "build")>>)
        @@ "next.config.js" :> TextFile(<<ExportLine>>)
        @@ "app" :> Dir @@ "pages" :> Dir @@ "pages/api" :> Dir)
FullTree == [r \in AppRoots |-> IF r = "app" THEN {RouteAt(MaxDepth)} ELSE {}]
Layouts == {Proj(BareNodes, BareTree), Proj(FullNodes, FullTree)}

\* package.json as anything but a readable manifest, and at the size limit
OddPkgNodes ==
    {Missing, Dir, File(0, EmptyText), File(512, BadJsonText),
     JsonFile(Null), JsonFile(JsonNumber(0)), JsonFile(JsonNumber(5)),
     BigFile(JsonText(BothManifest)), File(MaxFileSize, JsonText(BothManifest))}
PkgNodes == OddPkgNodes \cup {JsonFile(m) : m \in Manifests}

ManifestSlice ==
    {Proj(Override(L.node, "package.json" :> n), L.tree) : n \in PkgNodes, L \in Layouts}

\* Vite config files: which of the four exist, each with an outDir of its own
OutDirOf(name) ==
    CASE name = "vite.config.ts" -> "build-ts"
      [] name = "vite.config.js" -> "build-js"
      [] name = "vite.config.mjs" -> "build-mjs"
      [] name = "vite.config.cjs" -> "build-cjs"
ViteOrderNodes(name) ==
    {Missing, Dir,
     TextFile(<<Line("base", "quoted", "./")>>),
     TextFile(<<Line("outDir", "quoted", OutDirOf(name))>>),
     BigFile(Text(<<Line("outDir", "quoted", OutDirOf(name))>>))}
ViteOrderSlice ==
    {Proj(Override(BareNodes, ("package.json" :> JsonFile(ViteReactManifest)) @@ f), BareTree) :
        f \in {g \in [Range(ViteConfigNames) -> UNION {ViteOrderNodes(n) : n \in Range(ViteConfigNames)}] :
                  \A n \in Range(ViteConfigNames) : g[n] \in ViteOrderNodes(n)}}

\* Vite config files: what the one existing file holds
ViteLines ==
    {Line("outDir", "quoted", "build"), Line("outDir", "quoted", "www"),
     Line("outDir", "quoted", ""), Line("outDir", "template", "build"),
     Line("outDir", "expr", "resolve(__dirname, 'build')"),
     Line("base", "quoted", "./")}
ViteContentSlice ==
    {Proj(Override(BareNodes, ("package.json" :> JsonFile(ViteReactManifest)) @@ (n :> file)), BareTree) :
        n \in Range(ViteConfigNames),
        file \in {TextFile(l) : l \in SeqsUpTo(ViteLines, MaxLines)}
                 \cup {File(MaxFileSize, Text(<<Line("outDir", "quoted", "www")>>))}}

\* Next.js directory layouts while the config files vary
NextDirLayouts ==
    {Proj(Override(BareNodes, "package.json" :> JsonFile(NextManifest)), BareTree),
     Proj(Override(BareNodes, ("package.json" :> JsonFile(NextManifest)) @@ ("app" :> Dir)),
          FullTree),
     Proj(Override(BareNodes, ("package.json" :> JsonFile(NextManifest))
                              @@ ("pages" :> Dir) @@ ("pages/api" :> Dir)), BareTree)}

NextOrderNodes ==
    {Missing, Dir, File(0, EmptyText),
     TextFile(<<Line("output", "quoted", "standalone")>>),
     TextFile(<<ExportLine>>),
     BigFile(Text(<<ExportLine>>))}
NextOrderSlice ==
    {Proj(Override(L.node, f), L.tree) :
        f \in [Range(NextConfigNames) -> NextOrderNodes], L \in NextDirLayouts}

NextLines ==
    {ExportLine, Line("output", "quoted", "standalone"),
     Line("output", "template", "export"),
     Line("output", "expr", "isProd ? 'export' : undefined"),
     Line("distDir", "quoted", "export")}
NextContentSlice ==
    {Proj(Override(L.node, n :> TextFile(l)), L.tree) :
        n \in Range(NextConfigNames), l \in SeqsUpTo(NextLines, MaxLines),
        L \in NextDirLayouts}

\* router directories: every combination of the two roots of each convention
AppRootStates ==
    {[kind |-> Missing, tree |-> {}], [kind |-> File(0, EmptyText), tree |-> {}],
     [kind |-> Dir, tree |-> {}], [kind |-> Dir, tree |-> {RouteAt(MaxDepth)}]}
PagesRootStates ==
    {[kind |-> Missing, api |-> Missing], [kind |-> File(0, EmptyText), api |-> Missing],
     [kind |-> Dir, api |-> Missing], [kind |-> Dir, api |-> Dir],
     [kind |-> Dir, api |-> File(0, EmptyText)]}
NextConfigStates == {Missing, TextFile(<<ExportLine>>)}
RouterSlice ==
    {Proj(Override(BareNodes,
              ("package.json" :> JsonFile(NextManifest))
              @@ ("app" :> a.kind) @@ ("src/app" :> sa.kind)
              @@ ("pages" :> pg.kind) @@ ("pages/api" :> pg.api)
              @@ ("src/pages" :> sp.kind) @@ ("src/pages/api" :> sp.api)
              @@ ("next.config.js" :> c)),
          [r \in AppRoots |-> IF r = "app" THEN a.tree ELSE sa.tree]) :
        a \in AppRootStates, sa \in AppRootStates,
        pg \in PagesRootStates, sp \in PagesRootStates, c \in NextConfigStates}

\* what lies below one app root: up to MaxEntries entries, each at some depth
Entries ==
    [depth : 1..MaxDepth, name : {"route.ts", "route.js", "route.tsx"},
     kind : {"file", "dir", "symlink"}]
TreeSlice ==
    {Proj(Override(BareNodes,
              ("package.json" :> JsonFile(NextManifest))
              @@ (root :> Dir)
              @@ ((CHOOSE r \in AppRoots : r # root) :> other)
              @@ ("pages" :> pg) @@ ("pages/api" :> pg)),
          [r \in AppRoots |-> IF r = root THEN t ELSE {}]) :
        root \in AppRoots, t \in SubsetsUpTo(Entries, MaxEntries),
        other \in {Missing, Dir, File(0, EmptyText)}, pg \in {Missing, Dir}}

Projects ==
    ManifestSlice \cup ViteOrderSlice \cup ViteContentSlice
    \cup NextOrderSlice \cup NextContentSlice \cup RouterSlice \cup TreeSlice

(***************************************************************************)
(* The state machine.  The server holds no state between calls: a call     *)
(* runs to completion on an idle server and its response is then handed    *)
(* back, leaving the server idle again.  The project directory is never    *)
(* written.                                                                *)
(***************************************************************************)
AppNames == {"My App"}
BundleIds == {"com.example.myapp"}
PrimaryColors == {Undefined, "#3b82f6"}
ToolArguments ==
    [t : {"object"}, projectPath : ProjectPaths, appName : AppNames,
     bundleId : BundleIds, primaryColor : PrimaryColors]
    \cup {NoArguments}

\* in-flight calls of the interleaved server; none while calls run one at a time
Slots == {"a", "b"}
NoCalls == [s \in Slots |-> NoCall]

Init ==
    /\ fs \in Projects
    /\ op = "idle"
    /\ arg = NoCall
    /\ ret = Null
    /\ log = <<>>
    /\ prev = NoCall
    /\ calls = NoCalls

\* a direct call of detectViteProject(projectPath)
DetectVite ==
    /\ op = "idle"
    /\ \E projectPath \in ProjectPaths :
          /\ arg' = [t |-> "object", projectPath |-> projectPath]
          /\ ret' = detectViteProject(fs, projectPath)
          /\ log' = detectViteProjectCalls(fs, projectPath)
    /\ op' = "detectViteProject"
    /\ UNCHANGED <<fs, prev, calls>>

\* mutant: the detector creates the app directory it fails to find
DetectNext_MakesAppDir ==
    /\ op = "idle"
    /\ \E projectPath \in ProjectPaths :
          /\ arg' = [t |-> "object", projectPath |-> projectPath]
          /\ ret' = detectNextJsProject(fs, projectPath)
          /\ log' = detectNextJsProjectCalls(fs, projectPath)
    /\ op' = "detectNextJsProject"
    /\ fs' = [fs EXCEPT !.node["app"] = IF @.kind = "missing" THEN Dir ELSE @]
    /\ UNCHANGED <<prev, calls>>

\* a direct call of detectNextJsProject(projectPath)
DetectNext ==
    /\ op = "idle"
    /\ \E projectPath \in ProjectPaths :
          /\ arg' = [t |-> "object", projectPath |-> projectPath]
          /\ ret' = detectNextJsProject(fs, projectPath)
          /\ log' = detectNextJsProjectCalls(fs, projectPath)
    /\ op' = "detectNextJsProject"
    /\ UNCHANGED <<fs, prev, calls>>

\* the fs calls a handled request issues
CallToolHandlerCalls(d, name, args) ==
    CASE name = "detect_web_framework" -> detectFrameworkToolCalls(d, args)
      [] name = "generate_ios_migration_spec" -> generateSpecToolCalls(d, args)
      [] OTHER -> <<>>

\* a tools/call request for one of the two project tools, through the call
\* handler
CallTool ==
    /\ op = "idle"
    /\ \E name \in ToolNames, args \in ToolArguments, now \in 1..MaxTime :
          /\ op' = name
          /\ arg' = args
          /\ ret' = CallToolHandler(fs, name, args, now)
          /\ log' = CallToolHandlerCalls(fs, name, args)
    /\ UNCHANGED <<fs, prev, calls>>

\* the response is handed to the transport; nothing of the call is kept
Respond ==
    /\ op # "idle"
    /\ op' = "idle"
    /\ arg' = NoCall
    /\ ret' = Null
    /\ log' = <<>>
    /\ UNCHANGED <<fs, prev, calls>>

Next == DetectVite \/ DetectNext \/ CallTool \/ Respond

Spec == Init /\ [][Next]_vars

(***************************************************************************)
(* The engine as a whole: every exported operation, called on a small set  *)
(* of project directories that holds each kind of file and directory the   *)
(* facade tells apart, at package.json and at the other paths.             *)
(***************************************************************************)
CRAManifest ==
    Manifest(("react-scripts" :> "5.0.1") @@ ("react" :> "^18.2.0")
             @@ ("react-router-dom" :> "^6.0.0"),
             EmptyMap, "build" :> "react-scripts build")

\* files where directories are expected, directories and oversized or empty
\* files where config files are
OddNodes ==
    Override(BareNodes,
        "vite.config.ts" :> BigFile(Text(<<Line("outDir", "quoted", "build")>>))
        @@ "vite.config.js" :> Dir
        @@ "next.config.js" :> File(0, EmptyText)
        @@ "next.config.mjs" :> BigFile(Text(<<ExportLine>>))
        @@ "next.config.ts" :> TextFile(<<ExportLine>>)
        @@ "app" :> File(0, EmptyText) @@ "pages" :> Dir
        @@ "pages/api" :> File(0, EmptyText))
EngineLayouts == Layouts \cup {Proj(OddNodes, BareTree)}
EnginePkgNodes ==
    OddPkgNodes
    \cup {JsonFile(m) : m \in {ViteReactManifest, NextManifest, BothManifest, CRAManifest}}
EngineProjects ==
    {Proj(Override(L.node, "package.json" :> n), L.tree) :
        n \in EnginePkgNodes, L \in EngineLayouts}

InitEngine ==
    /\ fs \in EngineProjects
    /\ op = "idle"
    /\ arg = NoCall
    /\ ret = Null
    /\ log = <<>>
    /\ prev = NoCall
    /\ calls = NoCalls

Boolean(b) == [t |-> "boolean", value |-> b]

SafeReadFile ==
    /\ op = "idle"
    /\ \E p \in Paths :
          /\ arg' = [t |-> "object", path |-> p]
          /\ ret' = safeReadFile(fs, p)
          /\ log' = safeReadFileCalls(fs, p)
    /\ op' = "safeReadFile"
    /\ UNCHANGED <<fs, prev, calls>>

FileExists ==
    /\ op = "idle"
    /\ \E p \in Paths :
          /\ arg' = [t |-> "object", path |-> p]
          /\ ret' = Boolean(fileExists(fs, p))
          /\ log' = fileExistsCalls(fs, p)
    /\ op' = "fileExists"
    /\ UNCHANGED <<fs, prev, calls>>

ReadJsonFile ==
    /\ op = "idle"
    /\ \E p \in Paths :
          /\ arg' = [t |-> "object", path |-> p]
          /\ ret' = readJsonFile(fs, p)
          /\ log' = readJsonFileCalls(fs, p)
    /\ op' = "readJsonFile"
    /\ UNCHANGED <<fs, prev, calls>>

ReadPackageJson ==
    /\ op = "idle"
    /\ \E projectPath \in ProjectPaths :
          /\ arg' = [t |-> "object", projectPath |-> projectPath, path |-> "package.json"]
          /\ ret' = readPackageJson(fs, projectPath)
          /\ log' = readPackageJsonCalls(fs, projectPath)
    /\ op' = "readPackageJson"
    /\ UNCHANGED <<fs, prev, calls>>

Facade == SafeReadFile \/ FileExists \/ ReadJsonFile \/ ReadPackageJson

\* a tools/call request with any tool name, registered or not
AllToolNames == ToolNames \cup {"generate_capacitor_config", "no_such_tool"}
ConfigArguments ==
    [t : {"object"}, appName : AppNames \cup {Undefined}, appId : BundleIds,
     webDir : {"dist", "out"}, framework : {"vite", "nextjs"},
     primaryColor : PrimaryColors \cup {""}]
    \cup {NoArguments}
ArgumentsOf(name) ==
    IF name = "generate_capacitor_config" THEN ConfigArguments ELSE ToolArguments

CallAnyTool ==
    /\ op = "idle"
    /\ \E name \in AllToolNames, now \in 1..MaxTime :
          \E args \in ArgumentsOf(name) :
              /\ op' = name
              /\ arg' = args
              /\ ret' = CallToolHandler(fs, name, args, now)
              /\ log' = CallToolHandlerCalls(fs, name, args)
    /\ UNCHANGED <<fs, prev, calls>>

\* a direct call of generateMigrationSpec(projectInfo, options)
SpecOptions == ToolArguments \ {NoArguments}
CRAModel ==
    [framework |-> "cra", version |-> "5.0.1", buildCommand |-> "react-scripts build",
     buildOutputDir |-> "build", hasReactRouter |-> TRUE]
SynthesizeOver(models) ==
    /\ op = "idle"
    /\ \E projectInfo \in models, options \in SpecOptions, now \in 1..MaxTime :
          /\ arg' = [t |-> "object", projectInfo |-> projectInfo, options |-> options]
          /\ ret' = Text(generateMigrationSpec(projectInfo, options, now))
          /\ log' = generateMigrationSpecCalls
    /\ op' = "generateMigrationSpec"
    /\ UNCHANGED <<fs, prev, calls>>

EngineModels ==
    ({DetectProject(p, ProjDir) : p \in EngineProjects} \ {Null}) \cup {CRAModel}
Synthesize == SynthesizeOver(EngineModels)

NextEngine ==
    Facade \/ DetectVite \/ DetectNext \/ CallAnyTool \/ Synthesize \/ Respond

SpecEngine == InitEngine /\ [][NextEngine]_vars

(***************************************************************************)
(* The same detector called twice on the unchanged directory: the first    *)
(* call is remembered when it returns, and then issued again.              *)
(***************************************************************************)
Detectors == {"detectViteProject", "detectNextJsProject"}

Remember ==
    /\ op # "idle"
    /\ prev' = [op |-> op, arg |-> arg, ret |-> ret, log |-> log]
    /\ op' = "idle"
    /\ arg' = NoCall
    /\ ret' = Null
    /\ log' = <<>>
    /\ UNCHANGED <<fs, calls>>

FirstDetect == prev = NoCall /\ (DetectVite \/ DetectNext)

RepeatDetect ==
    /\ op = "idle"
    /\ prev # NoCall
    /\ prev.op \in Detectors
    /\ op' = prev.op
    /\ arg' = prev.arg
    /\ ret' = IF prev.op = "detectViteProject"
              THEN detectViteProject(fs, prev.arg.projectPath)
              ELSE detectNextJsProject(fs, prev.arg.projectPath)
    /\ log' = IF prev.op = "detectViteProject"
              THEN detectViteProjectCalls(fs, prev.arg.projectPath)
              ELSE detectNextJsProjectCalls(fs, prev.arg.projectPath)
    /\ UNCHANGED <<fs, prev, calls>>

NextRepeat == FirstDetect \/ Remember \/ RepeatDetect

SpecRepeat == Init /\ [][NextRepeat]_vars

(***************************************************************************)
(* Two requests in flight at once.  The handler and the tools are async    *)
(* functions: a call runs until it awaits, and the other call may run      *)
(* before it resumes.  Each call keeps what it has computed so far in its  *)
(* own frame (the const bindings of the tool function); the project        *)
(* directory stays as it is.                                               *)
(***************************************************************************)
IdleFrame ==
    [pc |-> "idle", name |-> "", args |-> NoArguments, now |-> 0,
     viteProject |-> Null, nextjsProject |-> Null, result |-> Null]

\* mutant: the detection results are kept in one place shared by all calls
Locals_ModuleLevel(cs, s) ==
    [cs[s] EXCEPT !.viteProject = cs["a"].viteProject,
                  !.nextjsProject = cs["a"].nextjsProject]

\* the bindings a call reads when it resumes: those of its own frame
Locals(cs, s) == cs[s]

ConcurrentTools == ToolNames \cup {"generate_capacitor_config"}
ConcurrentProjects ==
    {Proj(Override(L.node, "package.json" :> n), L.tree) :
        n \in {Missing, JsonFile(ViteReactManifest), JsonFile(NextManifest),
               JsonFile(CRAManifest)},
        L \in Layouts}

InitConcurrent ==
    /\ fs \in ConcurrentProjects
    /\ op = "idle"
    /\ arg = NoCall
    /\ ret = Null
    /\ log = <<>>
    /\ prev = NoCall
    /\ calls = [s \in Slots |-> IdleFrame]

\* the handler's catch
HandlerCatch(error) == Envelope(<< <<"Error: ">> \o error.message >>)
\* the catch of the tool the call runs
ToolCatch(name, error) ==
    IF name = "detect_web_framework"
    THEN Envelope(<< <<"[x] Error detecting framework: ">> \o error.message >>)
    ELSE Envelope(<< <<"[x] Error generating specification: ">> \o error.message >>)

\* a request arrives and runs up to the tool's first await
Accept(s) ==
    /\ calls[s].pc = "idle"
    /\ \E name \in ConcurrentTools :
          \E args \in ArgumentsOf(name) :
              LET f == [IdleFrame EXCEPT !.name = name, !.args = args] IN
              calls' = [calls EXCEPT ![s] =
                  IF name = "generate_capacitor_config" THEN [f EXCEPT !.pc = "config"]
                  ELSE IF IsThrow(Destructure(args))
                  THEN [f EXCEPT !.pc = "done", !.result = HandlerCatch(Destructure(args))]
                  ELSE [f EXCEPT !.pc = "vite"]]
    /\ UNCHANGED <<fs, op, arg, ret, log, prev>>

\* const viteProject = await detectViteProject(projectPath)
AwaitVite(s) ==
    /\ calls[s].pc = "vite"
    /\ LET f == Locals(calls, s)
           viteProject == detectViteProject(fs, f.args.projectPath) IN
       calls' = [calls EXCEPT ![s] =
           IF IsThrow(viteProject)
           THEN [@ EXCEPT !.pc = "done", !.result = ToolCatch(f.name, viteProject)]
           ELSE [@ EXCEPT !.pc = "next", !.viteProject = viteProject]]
    /\ UNCHANGED <<fs, op, arg, ret, log, prev>>

\* const nextjsProject = await detectNextJsProject(projectPath)
AwaitNext(s) ==
    /\ calls[s].pc = "next"
    /\ LET f == Locals(calls, s)
           nextjsProject == detectNextJsProject(fs, f.args.projectPath) IN
       calls' = [calls EXCEPT ![s] =
           IF IsThrow(nextjsProject)
           THEN [@ EXCEPT !.pc = "done", !.result = ToolCatch(f.name, nextjsProject)]
           ELSE [@ EXCEPT !.pc = "render", !.nextjsProject = nextjsProject]]
    /\ UNCHANGED <<fs, op, arg, ret, log, prev>>

\* the rest of the tool: projectInfo = viteProject || nextjsProject and the
\* text made of it, the clock read when the header is written
Render(s) ==
    /\ calls[s].pc = "render"
    /\ \E now \in 1..MaxTime :
          LET f == Locals(calls, s)
              projectInfo == OrModel(f.viteProject, f.nextjsProject) IN
          calls' = [calls EXCEPT ![s] = [@ EXCEPT !.pc = "done", !.now = now, !.result =
              IF f.name = "detect_web_framework"
              THEN IF projectInfo = Null
                   THEN Envelope(NoFrameworkText(f.args.projectPath))
                   ELSE Envelope(DetectionText(projectInfo))
              ELSE IF projectInfo = Null
                   THEN Envelope(CouldNotDetectText(f.args.projectPath))
                   ELSE Envelope(generateMigrationSpec(projectInfo, f.args, now))]]
    /\ UNCHANGED <<fs, op, arg, ret, log, prev>>

\* return await generateConfigTool(args)
Configure(s) ==
    /\ calls[s].pc = "config"
    /\ LET f == Locals(calls, s)
           result == generateConfigTool(f.args) IN
       calls' = [calls EXCEPT ![s] = [@ EXCEPT !.pc = "done", !.result =
           IF IsThrow(result) THEN HandlerCatch(result) ELSE result]]
    /\ UNCHANGED <<fs, op, arg, ret, log, prev>>

\* the response is handed to the transport and the frame is gone
Return(s) ==
    /\ calls[s].pc = "done"
    /\ calls' = [calls EXCEPT ![s] = IdleFrame]
    /\ UNCHANGED <<fs, op, arg, ret, log, prev>>

AcceptAny == \E s \in Slots : Accept(s)
AwaitViteAny == \E s \in Slots : AwaitVite(s)
AwaitNextAny == \E s \in Slots : AwaitNext(s)
RenderAny == \E s \in Slots : Render(s)
ConfigureAny == \E s \in Slots : Configure(s)
ReturnAny == \E s \in Slots : Return(s)

NextConcurrent ==
    AcceptAny \/ AwaitViteAny \/ AwaitNextAny \/ RenderAny \/ ConfigureAny \/ ReturnAny

SpecConcurrent == InitConcurrent /\ [][NextConcurrent]_vars

(***************************************************************************)
(* The specification generator called twice on the same model and the      *)
(* same options, the clock read anew by each call.  The models are those   *)
(* the detectors return for the project directories explored, and one of   *)
(* a Create React App project.                                             *)
(***************************************************************************)
SynthModels ==
    ({DetectProject(p, ProjDir) : p \in Projects} \ {Null}) \cup {CRAModel}

InitSynth ==
    /\ fs \in Layouts
    /\ op = "idle"
    /\ arg = NoCall
    /\ ret = Null
    /\ log = <<>>
    /\ prev = NoCall
    /\ calls = NoCalls

FirstSynthesize == prev = NoCall /\ SynthesizeOver(SynthModels)

RepeatSynthesize ==
    /\ op = "idle"
    /\ prev # NoCall
    /\ prev.op = "generateMigrationSpec"
    /\ \E now \in 1..MaxTime :
          ret' = Text(generateMigrationSpec(prev.arg.projectInfo, prev.arg.options, now))
    /\ op' = prev.op
    /\ arg' = prev.arg
    /\ log' = generateMigrationSpecCalls
    /\ UNCHANGED <<fs, prev, calls>>

NextSynth == FirstSynthesize \/ Remember \/ RepeatSynthesize

SpecSynth == InitSynth /\ [][NextSynth]_vars

(***************************************************************************)
(* Vocabulary of the properties, read off the project directory itself.    *)
(***************************************************************************)
IsModel(v) == "framework" \in DOMAIN v
IsEnvelope(v) == "content" \in DOMAIN v
TextOf(envelope) == envelope.content[1].text
Occurrences(text, line) == Cardinality({i \in 1..Len(text) : text[i] = line})

PkgNode == fs.node["package.json"]
\* package.json holds a JSON object (whether or not it can be read)
HoldsManifest ==
    /\ PkgNode.kind = "file"
    /\ PkgNode.text.t = "json"
    /\ PkgNode.text.wellFormed
    /\ PkgNode.text.value.t = "object"
\* the sections of the manifest that list the dependency
SectionsListing(name) ==
    IF HoldsManifest
    THEN {sec \in {"dependencies", "devDependencies"} : name \in DOMAIN PkgNode.text.value[sec]}
    ELSE {}
\* the manifest lists the dependency in neither section
ListsNowhere(name) == SectionsListing(name) = {}
\* the manifest can be read, and lists the dependency, each time with a
\* version specifier
Declares(name) ==
    /\ PkgNode.size <= MaxFileSize
    /\ SectionsListing(name) # {}
    /\ \A sec \in SectionsListing(name) : PkgNode.text.value[sec][name] # ""
\* the manifest can be read and gives the dependency a version specifier
\* in some section
DetectorMatches(name) ==
    /\ PkgNode.size <= MaxFileSize
    /\ \E sec \in SectionsListing(name) : PkgNode.text.value[sec][name] # ""

OnProject == arg # NoCall /\ arg # NoArguments /\ arg.projectPath = ProjDir

(***************************************************************************)
(* C1: a detector called on a project whose manifest lists its signature   *)
(* dependency ('vite', 'next') in neither dependencies nor devDependencies *)
(* never returns a model, and returns null for every project directory.    *)
(***************************************************************************)
C1_AbsentWithoutSignatureDependency ==
    /\ (op = "detectViteProject" /\ ListsNowhere("vite")) =>
          (~IsModel(ret) /\ (OnProject => ret = Null))
    /\ (op = "detectNextJsProject" /\ ListsNowhere("next")) =>
          (~IsModel(ret) /\ (OnProject => ret = Null))

\* a manifest that lists other dependencies, beside a Vite config file
C1_Witness ==
    /\ op = "detectViteProject" /\ OnProject
    /\ HoldsManifest /\ ListsNowhere("vite") /\ Declares("react")
    /\ fs.node["vite.config.ts"].kind = "file"
    /\ ret = Null

(***************************************************************************)
(* C2: both tools take the Vite detector's model whenever it is not null:  *)
(* when the manifest matches both 'vite' and 'next' the output is rendered *)
(* from the Vite model, and an output rendered from the Next.js model      *)
(* means the Vite detector did not match.                                  *)
(***************************************************************************)
\* the framework banner of a tool's output, "" if it has none
Banner(name, text) ==
    IF name = "detect_web_framework"
    THEN IF Len(text[1]) = 3 /\ text[1][1] = "[ok] Framework detected: **"
         THEN text[1][2] ELSE ""
    ELSE IF Len(text) >= 3 /\ Len(text[3]) = 2 /\ text[3][1] = "Framework: "
         THEN text[3][2] ELSE ""

C2_ViteBeforeNext ==
    (op \in ToolNames /\ OnProject) =>
        /\ (DetectorMatches("vite") /\ DetectorMatches("next")) => Banner(op, TextOf(ret)) = "VITE"
        /\ Banner(op, TextOf(ret)) = "NEXTJS" => (~DetectorMatches("vite") /\ DetectorMatches("next"))

C2_Witness ==
    /\ op = "generate_ios_migration_spec" /\ OnProject
    /\ DetectorMatches("vite") /\ DetectorMatches("next")
    /\ fs.node["next.config.js"].kind = "file"
    /\ Banner(op, TextOf(ret)) = "VITE"

(***************************************************************************)
(* C3: when neither detector matches (no manifest, an unreadable or        *)
(* unparseable one, or one without a framework dependency),                *)
(* detect_web_framework answers with the none-matched message: the         *)
(* "Supported frameworks:" heading followed by at least one framework      *)
(* name, and the two preconditions; never a model or a bare null.          *)
(***************************************************************************)
IsListItem(line) == Len(line) = 2 /\ line[1] = "- " /\ line[2] # ""

IsDir(path) == fs.node[path].kind = "dir"

C4_AppRouterPriority ==
    (op = "detectNextJsProject" /\ IsModel(ret)) =>
        /\ (IsDir("app") \/ IsDir("src/app")) => ret.routerType = "app"
        /\ (~IsDir("app") /\ ~IsDir("src/app") /\ (IsDir("pages") \/ IsDir("src/pages")))
              => ret.routerType = "pages"
        /\ (~IsDir("app") /\ ~IsDir("src/app") /\ ~IsDir("pages") /\ ~IsDir("src/pages"))
              => ret.routerType = "unknown"

\* the two conventions at different roots
C4_Witness ==
    /\ op = "detectNextJsProject" /\ IsModel(ret)
    /\ ~IsDir("app") /\ IsDir("src/app") /\ IsDir("pages") /\ ~IsDir("src/pages")
    /\ ret.routerType = "app"

(***************************************************************************)
(* The model a tool call on the project directory renders.                 *)
(***************************************************************************)
Detected == DetectProject(fs, ProjDir)
RendersNextJs ==
    /\ op = "generate_ios_migration_spec" /\ OnProject
    /\ IsModel(Detected) /\ Detected.framework = "nextjs"

StaticExportWarningHead ==
    <<"[warning] **CRITICAL**: You must enable static export for Capacitor.">>
StaticExportWarningEdit == <<"Edit next.config.js:">>
ApiRoutesWarningHead ==
    <<"[warning] **API Routes Detected**: API routes don't work with static export.">>
ApiRoutesOverviewMarker ==
    <<"- **API Routes**: ", "Yes ([warning] Requires backend setup)">>

(***************************************************************************)
(* C5: in the migration document of a Next.js model the static-export      *)
(* critical-warning block is present exactly when isStaticExport is false  *)
(* and the API-routes warning block exactly when hasApiRoutes is true,     *)
(* each whatever the other flag is.                                        *)
(***************************************************************************)
C5_WarningBlocksFollowFlags ==
    RendersNextJs =>
        LET doc == TextOf(ret) IN
        /\ (Occurrences(doc, StaticExportWarningHead) > 0) <=> ~Detected.isStaticExport
        /\ (Occurrences(doc, StaticExportWarningEdit) > 0) <=> ~Detected.isStaticExport
        /\ (Occurrences(doc, ApiRoutesWarningHead) > 0) <=> Detected.hasApiRoutes

\* an exporting project with API routes: the one block without the other
C5_Witness ==
    /\ RendersNextJs
    /\ Detected.isStaticExport /\ Detected.hasApiRoutes
    /\ Occurrences(TextOf(ret), StaticExportWarningHead) = 0
    /\ Occurrences(TextOf(ret), ApiRoutesWarningHead) = 1

(***************************************************************************)
(* C6 as stated: counting every section, the document of a Next.js model   *)
(* warns about API routes exactly once when hasApiRoutes is true and never *)
(* when it is false.                                                       *)
(***************************************************************************)
ApiRoutesWarnings(doc) ==
    Occurrences(doc, ApiRoutesWarningHead) + Occurrences(doc, ApiRoutesOverviewMarker)

C6_Stated_OneWarningInWholeDocument ==
    RendersNextJs =>
        ApiRoutesWarnings(TextOf(ret)) = (IF Detected.hasApiRoutes THEN 1 ELSE 0)

(***************************************************************************)
(* C6 amended: the API-routes warning block of the framework-specific      *)
(* guidance occurs exactly once when hasApiRoutes is true and never when   *)
(* it is false; the project overview flags its API Routes line with a      *)
(* warning of its own exactly when hasApiRoutes is true, and the           *)
(* pages-router considerations always advise to remove API routes.         *)
(***************************************************************************)
C6_OneWarningBlock ==
    RendersNextJs =>
        LET doc == TextOf(ret) IN
        /\ Occurrences(doc, ApiRoutesWarningHead) = (IF Detected.hasApiRoutes THEN 1 ELSE 0)
        /\ Occurrences(doc, ApiRoutesOverviewMarker) = (IF Detected.hasApiRoutes THEN 1 ELSE 0)
        /\ Occurrences(doc, <<"- Remove API routes or move to external service">>)
              = (IF Detected.routerType = "pages" THEN 1 ELSE 0)

\* a route file MaxDepth levels below app
C6_Witness ==
    /\ RendersNextJs
    /\ IsDir("app") /\ RouteAt(MaxDepth) \in fs.tree["app"]
    /\ Detected.hasApiRoutes
    /\ Occurrences(TextOf(ret), ApiRoutesWarningHead) = 1
    /\ ApiRoutesWarnings(TextOf(ret)) = 2

(***************************************************************************)
(* C7: for an app-router project hasApiRoutes is true exactly when a       *)
(* regular file named route.ts or route.js lies at some depth below 'app'  *)
(* or 'src/app'.                                                           *)
(***************************************************************************)
RouteFilesBelow(root) ==
    {e \in fs.tree[root] : e.kind = "file" /\ e.name \in {"route.ts", "route.js"}}

C7_AppRouterApiRoutes ==
    (op = "detectNextJsProject" /\ IsModel(ret) /\ ret.routerType = "app") =>
        (ret.hasApiRoutes <=>
            \E root \in AppRoots : IsDir(root) /\ RouteFilesBelow(root) # {})

\* a route.js at least three levels below src/app
C7_Witness ==
    /\ op = "detectNextJsProject" /\ IsModel(ret)
    /\ ~IsDir("app") /\ IsDir("src/app")
    /\ \E e \in RouteFilesBelow("src/app") : e.depth >= 3 /\ e.name = "route.js"
    /\ \A e \in fs.tree["src/app"] : e.depth >= 3
    /\ ret.hasApiRoutes

(***************************************************************************)
(* C8: a Next.js project with none of next.config.js, next.config.mjs,     *)
(* next.config.ts yields isStaticExport = false and buildOutputDir =       *)
(* '.next'.                                                                *)
(***************************************************************************)
NoNextConfig == \A n \in Range(NextConfigNames) : fs.node[n].kind = "missing"

ExistingViteConfigs ==
    {i \in 1..Len(ViteConfigNames) : fs.node[ViteConfigNames[i]].kind # "missing"}
SelectedViteConfig ==
    fs.node[ViteConfigNames[CHOOSE i \in ExistingViteConfigs :
                               \A j \in ExistingViteConfigs : i <= j]]
Readable(node) == node.kind = "file" /\ node.size <= MaxFileSize
\* the lines of a text holding a quoted, non-empty outDir
OutDirLiterals(text) ==
    {i \in 1..Len(text.lines) :
        /\ text.lines[i].key = "outDir"
        /\ text.lines[i].form = "quoted"
        /\ text.lines[i].val # ""}
SelectedHasOutDir ==
    /\ ExistingViteConfigs # {}
    /\ Readable(SelectedViteConfig)
    /\ OutDirLiterals(SelectedViteConfig.text) # {}
FirstOutDir ==
    LET lits == OutDirLiterals(SelectedViteConfig.text) IN
    SelectedViteConfig.text.lines[CHOOSE i \in lits : \A j \in lits : i <= j].val

C9_ViteReactCustomOutDir ==
    (/\ op = "detectViteProject" /\ OnProject
     /\ DetectorMatches("vite") /\ Declares("react")
     /\ SelectedHasOutDir) =>
        /\ IsModel(ret)
        /\ ret.framework = "vite"
        /\ ret.uiLibrary = "react"
        /\ ret.buildOutputDir = FirstOutDir

\* the second config name is the first that exists; a later one differs
C9_Witness ==
    /\ op = "detectViteProject" /\ OnProject
    /\ DetectorMatches("vite") /\ Declares("react")
    /\ ExistingViteConfigs = {2, 3}
    /\ SelectedHasOutDir
    /\ Readable(fs.node["vite.config.mjs"])
    /\ OutDirLiterals(fs.node["vite.config.mjs"].text) # {}
    /\ ret.buildOutputDir = "build-js"

(***************************************************************************)
(* C10: every model a detector returns has a non-empty buildOutputDir: the *)
(* Vite detector's is 'dist' or a quoted non-empty outDir of the selected  *)
(* config file, the Next.js detector's is 'out' or '.next'.                *)
(***************************************************************************)
C10_BuildOutputDirConcrete ==
    (op \in {"detectViteProject", "detectNextJsProject"} /\ IsModel(ret)) =>
        /\ ret.buildOutputDir \notin {"", Undefined, NullStr}
        /\ ret.framework = "vite" =>
              \/ ret.buildOutputDir = "dist"
              \/ /\ SelectedHasOutDir
                 /\ \E i \in OutDirLiterals(SelectedViteConfig.text) :
                       SelectedViteConfig.text.lines[i].val = ret.buildOutputDir
        /\ ret.framework = "nextjs" => ret.buildOutputDir \in {"out", ".next"}

\* a config file whose outDir is the empty string
C10_Witness ==
    /\ op = "detectViteProject" /\ IsModel(ret)
    /\ ExistingViteConfigs # {} /\ Readable(SelectedViteConfig)
    /\ Len(SelectedViteConfig.text.lines) >= 1
    /\ SelectedViteConfig.text.lines[1] = Line("outDir", "quoted", "")
    /\ ret.buildOutputDir = "dist"

(***************************************************************************)
(* C11: detection is idempotent.  A detector called a second time with the *)
(* same argument, the directory unchanged in between, returns what the     *)
(* first call returned: both absent, or two models equal in every field.   *)
(***************************************************************************)
IsRepetition == op \in Detectors /\ prev # NoCall /\ prev.op = op /\ prev.arg = arg

FacadeOps == {"safeReadFile", "fileExists", "readJsonFile", "readPackageJson"}
\* a facade call that was given a path
OnPath == op \in FacadeOps /\ (op = "readPackageJson" => arg.projectPath = ProjDir)
Target == fs.node[arg.path]
IsMissing(n) == n.kind = "missing"
IsTooLarge(n) == n.kind # "missing" /\ n.size > MaxFileSize
IsInvalidJson(n) ==
    n.kind = "file" /\ n.size <= MaxFileSize
    /\ ~(n.text.t = "json" /\ n.text.wellFormed)
Absent(v) == v = Null \/ v = Boolean(FALSE)

C12_Stated_AbsentInEveryCase ==
    (OnPath /\ (IsMissing(Target) \/ IsTooLarge(Target) \/ IsInvalidJson(Target)))
        => Absent(ret)

C12_FacadeNeverRaises ==
    OnPath =>
        /\ ~IsThrow(ret)
        /\ op = "safeReadFile" =>
              /\ (IsMissing(Target) \/ IsTooLarge(Target)) => ret = Null
              /\ IsInvalidJson(Target) => ret = Target.text
        /\ op = "fileExists" => ret = Boolean(~IsMissing(Target))
        /\ op \in {"readJsonFile", "readPackageJson"} =>
              ((IsMissing(Target) \/ IsTooLarge(Target) \/ IsInvalidJson(Target))
                  => ret = Null)

C12_Witness ==
    /\ op = "readPackageJson" /\ OnPath
    /\ IsInvalidJson(Target) /\ ret = Null

(***************************************************************************)
(* C13: a detector's result is a model or absent, never an error.          *)
(*   As stated: for every projectPath argument, a missing or non-string    *)
(*   one included, and every directory, both detectors complete with a     *)
(*   model or null.                                                        *)
(*   As the code has it: so they do for every projectPath that is a        *)
(*   string; called without one they reject with the TypeError path.join   *)
(*   raises in readPackageJson, before anything is read.                   *)
(***************************************************************************)
C13_Stated_NeverAnError ==
    op \in Detectors => (IsModel(ret) \/ ret = Null)

C13_ModelOrAbsentForStringPath ==
    op \in Detectors =>
        IF arg.projectPath = ProjDir
        THEN IsModel(ret) \/ ret = Null
        ELSE IsThrow(ret) /\ log = <<>>

C13_Witness ==
    /\ op = "detectViteProject" /\ arg.projectPath = ProjDir
    /\ fs.node["package.json"].kind = "file"
    /\ fs.node["package.json"].text = BadJsonText
    /\ ret = Null

(***************************************************************************)
(* C14: every tool call, whatever the tool name and the arguments, ends    *)
(* with the call handler returning a content envelope.  An exception       *)
(* raised during the call (an unknown tool name, arguments left out        *)
(* altogether, a projectPath left out) is caught and comes back as one     *)
(* line of text that ends with the error's message.                        *)
(***************************************************************************)
RegisteredTools == AllToolNames \ {"no_such_tool"}
\* a one-line text: some prefix, then the fragments of the message
CarriesMessage(text, message) ==
    /\ Len(text) = 1
    /\ Len(text[1]) = Len(message) + 1
    /\ SubSeq(text[1], 2, Len(text[1])) = message

C14_HandlerReturnsEnvelope ==
    op \in AllToolNames =>
        /\ IsEnvelope(ret)
        /\ op \notin RegisteredTools =>
              TextOf(ret) = << <<"Error: ", "Unknown tool: ", op>> >>
        /\ (op \in RegisteredTools /\ arg = NoArguments) =>
              /\ CarriesMessage(TextOf(ret), Destructure(NoArguments).message)
                 \/ CarriesMessage(TextOf(ret), DestructureConfig(NoArguments).message)
              /\ TextOf(ret)[1][1] = "Error: "
        /\ (op \in ToolNames /\ arg # NoArguments /\ arg.projectPath = Undefined) =>
              CarriesMessage(TextOf(ret), PathJoin(Undefined, "package.json").message)

C14_Witness ==
    /\ op = "generate_ios_migration_spec" /\ arg # NoArguments
    /\ arg.projectPath = Undefined
    /\ IsEnvelope(ret)
    /\ TextOf(ret)[1][1] = "[x] Error generating specification: "

(***************************************************************************)
(* C15: no operation of the engine (facade reads, either detector, the     *)
(* coordinator inside the tools, spec synthesis, config synthesis) creates,*)
(* modifies or deletes a file or directory: every step leaves the project  *)
(* directory as it was, and the only fs calls issued are access, stat,     *)
(* readFile and readdir.                                                   *)
(***************************************************************************)
C15_NoWrites ==
    [][/\ fs' = fs
       /\ \A i \in DOMAIN log' : log'[i].call \in FsReadCalls]_vars

C15_Witness ==
    /\ op = "generate_ios_migration_spec"
    /\ \E i \in DOMAIN log : log[i].call = "readdir"
    /\ \E i \in DOMAIN log : log[i].call = "readFile"
    /\ fs.node["app"] = Dir

(***************************************************************************)
(* C16: detect_web_framework recognizes a Create React App project: for a  *)
(* readable manifest that declares react-scripts (and neither vite nor     *)
(* next) the tool reports the framework CRA with its React Router line,    *)
(* not the none-matched text.                                              *)
(***************************************************************************)
IsCRAProject ==
    DetectorMatches("react-scripts") /\ ~DetectorMatches("vite") /\ ~DetectorMatches("next")

C16_Stated_RecognizesCRA ==
    (op = "detect_web_framework" /\ OnProject /\ IsCRAProject) =>
        /\ IsEnvelope(ret)
        /\ Banner(op, TextOf(ret)) = "CRA"
        /\ \E i \in DOMAIN TextOf(ret) :
              TextOf(ret)[i][1] \in {"**React Router:** Yes", "**React Router:** No"}

(***************************************************************************)
(* C17: configuration synthesis called without primaryColor gives the      *)
(* SplashScreen plugin the background color '#8b5cf6', and every other     *)
(* line of what it generates (appId, appName, webDir, bundledWebRuntime,   *)
(* server, ios, StatusBar, the other SplashScreen keys) is the line the    *)
(* same call with a primaryColor produces.                                 *)
(***************************************************************************)
SplashColorLine(color) == <<"      backgroundColor: '", color, "',">>
\* the backgroundColor line of the SplashScreen block
IsSplashColorLine(text, i) ==
    /\ i > 1
    /\ text[i][1] = "      backgroundColor: '"
    /\ text[i - 1][1] = "      launchShowDuration: "
WithoutPrimaryColor ==
    op = "generate_capacitor_config" /\ arg # NoArguments /\ arg.primaryColor = Undefined
SuppliedColors == {c \in PrimaryColors : TruthyStr(c)}

C17_DefaultSplashColorOnly ==
    WithoutPrimaryColor =>
        LET text == TextOf(ret) IN
        /\ \E i \in DOMAIN text : IsSplashColorLine(text, i)
        /\ \A i \in DOMAIN text :
              IsSplashColorLine(text, i) => text[i] = SplashColorLine("#8b5cf6")
        /\ \A color \in SuppliedColors :
              LET other == TextOf(CallToolHandler(fs, op, [arg EXCEPT !.primaryColor = color], 1)) IN
              /\ Len(other) = Len(text)
              /\ \A i \in DOMAIN text :
                    IF IsSplashColorLine(text, i)
                    THEN other[i] = SplashColorLine(color)
                    ELSE other[i] = text[i]

C17_Witness ==
    /\ WithoutPrimaryColor
    /\ arg.appName # Undefined
    /\ \E i \in DOMAIN TextOf(ret) : TextOf(ret)[i] = SplashColorLine("#8b5cf6")
    /\ \E i \in DOMAIN TextOf(ret) : TextOf(ret)[i] = <<"  webDir: '", "out", "',">>

(***************************************************************************)
(* C18: a detection pass is gated step by step.  Every fs call a detector  *)
(* issues on anything but package.json (the existence check or read of a   *)
(* config file, the stat of a directory, the scan of a directory) is       *)
(* issued only if the manifest was loaded and gives the detector's         *)
(* signature dependency; and when the manifest cannot be loaded the        *)
(* detector returns null having issued the calls of that one read only.    *)
(***************************************************************************)
SignatureOf(detector) == IF detector = "detectViteProject" THEN "vite" ELSE "next"
\* package.json can be read and parses to a value other than null
ManifestLoaded ==
    /\ PkgNode.kind = "file"
    /\ PkgNode.size <= MaxFileSize
    /\ PkgNode.text.t = "json"
    /\ PkgNode.text.wellFormed
    /\ PkgNode.text.value # Null
\* the calls of one attempt to read package.json, and nothing after them
OnlyManifestRead ==
    /\ Len(log) \in 1..3
    /\ \A i \in DOMAIN log : log[i].path = "package.json"
    /\ log[1].call = "access"
    /\ Len(log) >= 2 => log[2].call = "stat"
    /\ Len(log) = 3 => log[3].call = "readFile"

Alone(f) == CallToolHandler(fs, f.name, f.args, f.now)

C19_CallsIndependent ==
    \A s \in Slots :
        LET f == calls[s] IN
        /\ f.pc = "done" => f.result = Alone(f)
        /\ f.pc \in {"next", "render"} =>
              f.viteProject = detectViteProject(fs, f.args.projectPath)
        /\ f.pc = "render" =>
              f.nextjsProject = detectNextJsProject(fs, f.args.projectPath)

C19_Witness ==
    /\ calls["a"].pc = "done" /\ calls["b"].pc = "done"
    /\ calls["a"].name = "detect_web_framework"
    /\ calls["b"].name = "generate_ios_migration_spec"
    /\ calls["a"].args # NoArguments /\ calls["b"].args # NoArguments
    /\ calls["a"].args.projectPath = ProjDir
    /\ calls["b"].args.projectPath = ProjDir
    /\ calls["a"].now # calls["b"].now
    /\ calls["a"].result # calls["b"].result
    /\ IsModel(detectNextJsProject(fs, ProjDir))

(***************************************************************************)
(* C20: generateMigrationSpec is a pure function of the model and the      *)
(* options.  Two calls with the same model and the same options give       *)
(* documents of the same length that agree on every line but the           *)
(* 'Generated:' line of the header, where each has its own clock reading;  *)
(* and neither call issues a call of the fs module.                        *)
(***************************************************************************)
IsSecondSynthesis ==
    /\ op = "generateMigrationSpec"
    /\ prev # NoCall
    /\ prev.op = op
    /\ prev.arg = arg
\* the line of the header that carries the time of generation
IsTimestampLine(doc, i) == i = 2 /\ doc[i][1] = "Generated: " /\ Len(doc[i]) = 2

C20_PureButForTimestamp ==
    IsSecondSynthesis =>
        LET first == prev.ret.lines
            second == ret.lines IN
        /\ Len(first) = Len(second)
        /\ \A i \in DOMAIN first :
              first[i] # second[i] => (IsTimestampLine(first, i) /\ IsTimestampLine(second, i))
        /\ log = <<>> /\ prev.log = <<>>

C20_Witness ==
    /\ IsSecondSynthesis
    /\ ret # prev.ret
    /\ arg.projectInfo.framework = "nextjs"
    /\ arg.options.primaryColor # Undefined

(***************************************************************************)
(* C21: in the migration document an absent optional value renders as an   *)
(* empty sub-clause.  Without a primaryColor the icon line of the next     *)
(* steps ends after 'icon', with no color clause anywhere; for a Vite      *)
(* model without a config path the file to update is vite.config.ts; and   *)
(* when appName and bundleId are given no interpolated value of the        *)
(* document is undefined or null.                                          *)
(***************************************************************************)
IconLine == "   - Prepare 1024x1024 icon"
RequiredGiven(options) ==
    options.appName \notin {Undefined, NullStr} /\ options.bundleId \notin {Undefined, NullStr}

C21_AbsentRendersEmpty ==
    (op = "generateMigrationSpec" /\ RequiredGiven(arg.options)) =>
        LET doc == ret.lines
            projectInfo == arg.projectInfo IN
        /\ ~TruthyStr(arg.options.primaryColor) =>
              /\ \E i \in DOMAIN doc : doc[i] = <<IconLine, "">>
              /\ \A i \in DOMAIN doc : \A j \in DOMAIN doc[i] :
                    doc[i][j] \notin {" (use ", " as primary color)"}
        /\ (projectInfo.framework = "vite" /\ projectInfo.viteConfigPath = NullStr) =>
              \E i \in DOMAIN doc : doc[i] = <<"Update vite.config.", "ts", ":">>
        /\ \A i \in DOMAIN doc : \A j \in DOMAIN doc[i] :
              doc[i][j] \notin {Undefined, NullStr, "undefined", "null"}

C21_Witness ==
    /\ op = "generateMigrationSpec"
    /\ arg.options.primaryColor = Undefined
    /\ arg.projectInfo.framework = "vite"
    /\ arg.projectInfo.viteConfigPath = NullStr
    /\ \E i \in DOMAIN ret.lines : ret.lines[i] = <<IconLine, "">>
    /\ \E i \in DOMAIN ret.lines : ret.lines[i] = <<"Update vite.config.", "ts", ":">>

(***************************************************************************)
(* C22: a package.json that is there but does not parse as JSON is, to the *)
(* caller, a package.json that is not there.  For every project directory  *)
(* with such a manifest, detect_web_framework and                          *)
(* generate_ios_migration_spec return what they return for the same        *)
(* directory with package.json removed, and that is the tool's             *)
(* none-matched text, not an error text.                                   *)
(***************************************************************************)
WithoutManifest(d) == [d EXCEPT !.node["package.json"] = Missing]
NoneMatched(tool, projectPath) ==
    IF tool = "detect_web_framework"
    THEN Envelope(NoFrameworkText(projectPath))
    ELSE Envelope(CouldNotDetectText(projectPath))

HoldsExport(name) ==
    /\ Readable(fs.node[name])
    /\ \E j \in 1..Len(fs.node[name].text.lines) : ExportMatches(fs.node[name].text.lines[j])
LookedAt(name) == \E k \in DOMAIN log : log[k] = FsCall("access", name)
FirstLook(name) == CHOOSE k \in DOMAIN log : log[k] = FsCall("access", name)

C23_StaticExportScan ==
    (op = "detectNextJsProject" /\ IsModel(ret)) =>
        /\ ret.isStaticExport <=> \E i \in DOMAIN NextConfigNames : HoldsExport(NextConfigNames[i])
        /\ \A i \in DOMAIN NextConfigNames :
              LookedAt(NextConfigNames[i]) <=>
                  \A j \in 1..(i - 1) : ~HoldsExport(NextConfigNames[j])
        /\ \A i, j \in DOMAIN NextConfigNames :
              (i < j /\ LookedAt(NextConfigNames[i]) /\ LookedAt(NextConfigNames[j])) =>
                  FirstLook(NextConfigNames[i]) < FirstLook(NextConfigNames[j])
        /\ \A k \in DOMAIN log : \A l \in DOMAIN log :
              (log[k] = log[l] /\ log[k].path \in Range(NextConfigNames)) => k = l

C23_Witness ==
    /\ op = "detectNextJsProject" /\ IsModel(ret)
    /\ Readable(fs.node["next.config.js"]) /\ ~HoldsExport("next.config.js")
    /\ fs.node["next.config.js"].text # EmptyText
    /\ HoldsExport("next.config.mjs")
    /\ ret.isStaticExport
    /\ ~LookedAt("next.config.ts")

(***************************************************************************)
(* C24: for a pages-router Next.js project hasApiRoutes is true exactly    *)
(* when pages/api or src/pages/api is a directory, and nothing is listed   *)
(* or read below them: the only calls on those paths are fs.stat and no    *)
(* directory is scanned.  For router type 'unknown' hasApiRoutes is false. *)
(***************************************************************************)
PagesApiDirs == {"pages/api", "src/pages/api"}

C24_PagesApiRoutes ==
    (op = "detectNextJsProject" /\ IsModel(ret)) =>
        /\ ret.routerType = "pages" =>
              /\ ret.hasApiRoutes <=> \E dir \in PagesApiDirs : IsDir(dir)
              /\ \A k \in DOMAIN log :
                    /\ log[k].call # "readdir"
                    /\ log[k].path \in PagesApiDirs => log[k].call = "stat"
        /\ ret.routerType = "unknown" => ~ret.hasApiRoutes

C24_Witness ==
    /\ op = "detectNextJsProject" /\ IsModel(ret)
    /\ ret.routerType = "pages"
    /\ ~IsDir("pages/api") /\ IsDir("src/pages/api")
    /\ ret.hasApiRoutes
    /\ \E k \in DOMAIN log : log[k] = FsCall("stat", "src/pages/api")

(***************************************************************************)
(* C25: the Vite detector selects its config file from vite.config.ts,     *)
(* vite.config.js, vite.config.mjs, vite.config.cjs, checked in that order *)
(* until one exists.  Whenever the manifest gives 'vite' a version a model *)
(* is returned; its viteConfigPath is the earliest listed name that        *)
(* exists, and null exactly when none of the four exists; a name is        *)
(* checked exactly when no earlier one exists.                             *)
(***************************************************************************)
Checked(name) == \E k \in DOMAIN log : log[k] = FsCall("access", name)

ExportMarked == \E i \in DOMAIN NextConfigNames : HoldsExport(NextConfigNames[i])
ApiRoutesThere ==
    IF IsDir("app") \/ IsDir("src/app")
    THEN \E root \in AppRoots : IsDir(root) /\ RouteFilesBelow(root) # {}
    ELSE IF IsDir("pages") \/ IsDir("src/pages")
    THEN \E dir \in PagesApiDirs : IsDir(dir)
    ELSE FALSE
EveryCombinationReturned ==
    \A export \in BOOLEAN, api \in BOOLEAN :
        \E p \in Projects :
            LET model == detectNextJsProject(p, ProjDir) IN
            IsModel(model) /\ model.isStaticExport = export /\ model.hasApiRoutes = api

C27_FlagsIndependent ==
    /\ EveryCombinationReturned
    /\ (op = "detectNextJsProject" /\ IsModel(ret)) =>
          /\ ret.isStaticExport = ExportMarked
          /\ ret.hasApiRoutes = ApiRoutesThere

C27_Witness ==
    /\ op = "detectNextJsProject" /\ IsModel(ret)
    /\ ExportMarked /\ ApiRoutesThere
    /\ ret.isStaticExport /\ ret.hasApiRoutes
    /\ ret.buildOutputDir = "out"

(***************************************************************************)
(* C28: in every model the Next.js detector returns buildOutputDir is      *)
(* 'out' exactly when isStaticExport is true and '.next' exactly when it   *)
(* is false, and is never anything else.                                   *)
(***************************************************************************)
C28_OutDirFollowsExport ==
    (op = "detectNextJsProject" /\ IsModel(ret)) =>
        /\ ret.buildOutputDir = "out" <=> ret.isStaticExport
        /\ ret.buildOutputDir = ".next" <=> ~ret.isStaticExport
        /\ ret.buildOutputDir \in {"out", ".next"}

C28_Witness ==
    /\ op = "detectNextJsProject" /\ IsModel(ret)
    /\ ret.isStaticExport /\ ret.hasApiRoutes /\ ret.routerType = "pages"
    /\ ret.buildOutputDir = "out"

(***************************************************************************)
(* C29: once the router type is 'app', API routes are looked for below the *)
(* app directories only.  pages/api and src/pages/api are not examined by  *)
(* any fs call, and a project that has one of them as a directory but no   *)
(* route.ts / route.js below app or src/app has hasApiRoutes = false.      *)
(***************************************************************************)
C29_AppRouterIgnoresPagesApi ==
    (op = "detectNextJsProject" /\ IsModel(ret) /\ ret.routerType = "app") =>
        /\ \A k \in DOMAIN log : log[k].path \notin PagesApiDirs
        /\ (\A root \in AppRoots : ~IsDir(root) \/ RouteFilesBelow(root) = {})
              => ~ret.hasApiRoutes

C29_Witness ==
    /\ op = "detectNextJsProject" /\ IsModel(ret)
    /\ ret.routerType = "app"
    /\ IsDir("pages") /\ IsDir("pages/api")
    /\ \A root \in AppRoots : RouteFilesBelow(root) = {}
    /\ ~ret.hasApiRoutes

(***************************************************************************)
(* C30: in the text detect_web_framework returns for a Next.js project the *)
(* compatibility verdict is 'Ready' exactly when neither the static-export *)
(* warning nor the API-routes warning is printed, that is when the text    *)
(* reports static export enabled and no API routes; otherwise it is 'Needs *)
(* configuration'.  For a Vite project the verdict is always 'Ready'.      *)
(***************************************************************************)
Has(text, line) == \E i \in DOMAIN text : text[i] = line
Verdict(text) == text[Len(text)]
ReadyVerdict == <<"**Capacitor Compatibility:** ", "[ok] Ready">>
NeedsVerdict == <<"**Capacitor Compatibility:** ", "[warning] Needs configuration">>
DetectionExportWarning ==
    <<"> [warning] **Important:** Next.js requires static export for Capacitor.">>
DetectionApiWarning ==
    <<"> [warning] **Warning:** API routes detected. These won't work with static export.">>

C30_VerdictFollowsWarnings ==
    (op = "detect_web_framework" /\ OnProject /\ IsEnvelope(ret)) =>
        LET text == TextOf(ret) IN
        /\ Banner(op, text) = "NEXTJS" =>
              /\ Verdict(text) \in {ReadyVerdict, NeedsVerdict}
              /\ Verdict(text) = ReadyVerdict <=>
                    (~Has(text, DetectionExportWarning) /\ ~Has(text, DetectionApiWarning))
              /\ Verdict(text) = ReadyVerdict <=>
                    /\ Has(text, <<"**Static Export:** ", "Enabled [ok]">>)
                    /\ Has(text, <<"**API Routes:** ", "No">>)
              /\ Verdict(text) = ReadyVerdict <=>
                    (Detected.isStaticExport /\ ~Detected.hasApiRoutes)
        /\ Banner(op, text) = "VITE" => Verdict(text) = ReadyVerdict

C30_Witness ==
    /\ op = "detect_web_framework" /\ OnProject /\ IsEnvelope(ret)
    /\ Banner(op, TextOf(ret)) = "NEXTJS"
    /\ Has(TextOf(ret), <<"**Static Export:** ", "Enabled [ok]">>)
    /\ Has(TextOf(ret), DetectionApiWarning)
    /\ ~Has(TextOf(ret), DetectionExportWarning)
    /\ Verdict(TextOf(ret)) = NeedsVerdict

====
